---------------------------- MODULE Spec2Model ----------------------------
(***************************************************************************)
(* Portfolio sorts of tidy-finance/bivariate-sorts.py and                  *)
(* tidy-finance/ff-factors.py: NYSE breakpoints, portfolio assignment,     *)
(* independent and dependent bivariate sorts, value-weighted portfolio     *)
(* returns and the long-short value premium.                               *)
(*                                                                         *)
(* Numbers.  Sorting variables, returns and weights are integers.  A       *)
(* quantile at probability num/den of integer data is the rational         *)
(* q/den, kept as the record [kind |-> "fin", num |-> q, den |-> den];     *)
(* -inf, +inf and NaN are the other kinds of float a breakpoint can be.    *)
(* A missing label (the NaN that pd.cut returns) is NA.                    *)
(***************************************************************************)
EXTENDS Integers, Sequences, FiniteSets, TLC

\* ----------------------------------------------------------------- bounds
MaxObs == 3         \* rows of one cross-section handed to assign_portfolio
MaxVal == 2         \* a sorting variable takes the values 0..MaxVal
MaxN == 3           \* n_portfolios ranges over 1..MaxN
MaxBm == 1          \* bm takes the values 0..MaxBm where me varies as well
MaxLabel == 3       \* portfolio_bm of a given return table is in 1..MaxLabel

\* ------------------------------------------------------------- floats
NegInf == [kind |-> "-inf", num |-> 0, den |-> 1]
PosInf == [kind |-> "+inf", num |-> 0, den |-> 1]
NaN == [kind |-> "nan", num |-> 0, den |-> 1]

Fin(n, d) == [kind |-> "fin", num |-> n, den |-> d]

\* a == b on floats, except that two NaN count as equal (drop_duplicates,
\* algos.unique); no caller compares a NaN with ==
BpEq(a, b) ==
  /\ a.kind = b.kind
  /\ a.kind = "fin" => a.num * b.den = b.num * a.den

\* a < b on floats (false when either side is NaN)
BpLt(a, b) ==
  CASE a.kind = "nan" \/ b.kind = "nan" -> FALSE
    [] a.kind = "-inf" -> b.kind # "-inf"
    [] a.kind = "+inf" -> FALSE
    [] OTHER -> CASE b.kind = "-inf" -> FALSE
                  [] b.kind = "+inf" -> TRUE
                  [] OTHER -> a.num * b.den < b.num * a.den

\* b <= v for a breakpoint b and a finite value v
BpLeqVal(b, v) ==
  CASE b.kind = "-inf" -> TRUE
    [] b.kind = "fin" -> b.num <= v * b.den
    [] OTHER -> FALSE

\* v == b for a breakpoint b and a finite value v
BpEqVal(b, v) == b.kind = "fin" /\ b.num = v * b.den

\* the missing label
NA == 0

\* ------------------------------------------------------------ the table
Exchanges == {"NYSE", "NASDAQ"}
SortingVariables == {"me", "bm"}

\* data[sorting_variable] of one row
Get(row, sorting_variable) ==
  CASE sorting_variable = "me" -> row.me
    [] sorting_variable = "size" -> row.size
    [] OTHER -> row.bm

\* data.query("exchange in [...]").get(sorting_variable), as a sequence
RefValuesAll(data, exchanges, sorting_variable) ==
  [i \in 1..Len(data) |-> Get(data[i], sorting_variable)]

RefValues(data, exchanges, sorting_variable) ==
  LET ref == SelectSeq(data, LAMBDA r : r.exchange \in exchanges)
  IN [i \in 1..Len(ref) |-> Get(ref[i], sorting_variable)]

\* np.linspace(0, 1, num=n_portfolios+1): the probabilities k/n, k = 0..n
\* (num=1 gives the single probability 0, num=0 gives none).  linspace
\* computes k * (1/n) in doubles: for n <= 5 that is the double nearest to
\* k/n, the one a literal such as 0.6 is too, but for 3 * 0.2, which is
\* 0.6000000000000001, the double above 0.6.
Linspace(n_portfolios) ==
  [k \in 1..(n_portfolios + 1) |->
     [num |-> k - 1, den |-> IF n_portfolios = 0 THEN 1 ELSE n_portfolios,
      above |-> (n_portfolios = 5 /\ k - 1 = 3)]]

\* a rounding error is 1/Resolution of the unit 1/den of a quantile
Resolution == 1000

\* Series.quantile(p, interpolation="linear") of one probability p:
\* with the values sorted as x[0..m-1] and h = (m-1)*p, the result is
\* x[floor(h)] + (h - floor(h)) * (x[floor(h)+1] - x[floor(h)]);
\* NaN for an empty series.  At the probability that lies above k/n the
\* weight h - floor(h) is above its exact value by a rounding error, and so
\* is the result where the two order statistics differ.
Quantile(values, p) ==
  LET x == SortSeq(values, LAMBDA a, b : a < b)
      m == Len(x)
      h == (m - 1) * p.num
      lo == h \div p.den
      hi == IF lo + 1 < m THEN lo + 1 ELSE lo
      exact == p.den * x[lo + 1] + (h - lo * p.den) * (x[hi + 1] - x[lo + 1])
  IN CASE m = 0 -> NaN
       [] m > 0 /\ p.above /\ x[hi + 1] > x[lo + 1] ->
            Fin(exact * Resolution + 1, p.den * Resolution)
       [] OTHER -> Fin(exact, p.den)

QuantileSeq(values, probs) ==
  [k \in 1..Len(probs) |-> Quantile(values, probs[k])]

\* the quantiles as they are, a repeated value kept
KeepDuplicates(s) == s

\* Series.drop_duplicates(): keep the first occurrence of every value
RECURSIVE DropDuplicates(_)
DropDuplicates(s) ==
  IF s = << >> THEN << >>
  ELSE LET front == DropDuplicates(SubSeq(s, 1, Len(s) - 1))
           last == s[Len(s)]
       IN IF \E i \in 1..Len(front) : BpEq(front[i], last)
          THEN front
          ELSE Append(front, last)

\* breakpoints.iloc[0] = -np.Inf; breakpoints.iloc[breakpoints.size-1] = np.Inf
\* (two assignments in this order: on a series of size 1 the second wins)
SetInf(b) ==
  LET first == [b EXCEPT ![1] = NegInf]
  IN [first EXCEPT ![Len(first)] = PosInf]

\* bins.searchsorted(x, side="right") on increasing bins: how many bins are <= v
\* (side="left", which pd.cut takes for right=True: how many bins are < v)
SearchSortedLeft(bins, v) ==
  Cardinality({i \in 1..Len(bins) : BpLeqVal(bins[i], v) /\ ~BpEqVal(bins[i], v)})

SearchSorted(bins, v) ==
  Cardinality({i \in 1..Len(bins) : BpLeqVal(bins[i], v)})

IsMonotonicIncreasing(bins) ==
  \A i \in 1..(Len(bins) - 1) : ~BpLt(bins[i + 1], bins[i])
                                /\ bins[i].kind # "nan" /\ bins[i + 1].kind # "nan"

HasDuplicates(bins) ==
  \E i, j \in 1..Len(bins) : i < j /\ BpEq(bins[i], bins[j])

\* one element of pd.cut(x, bins, labels=range(1, len(bins)),
\* include_lowest=True, right=False): ids = searchsorted; ids = 1 where
\* x == bins[0]; NaN where ids == 0 or ids == len(bins); else label ids
CutLabelDescending(bins, v) ==
  LET found == SearchSorted(bins, v)
  IN IF found = 0 \/ found = Len(bins) THEN NA ELSE Len(bins) - found

CutLabel(bins, v) ==
  LET found == SearchSorted(bins, v)
      ids == IF BpEqVal(bins[1], v) THEN 1 ELSE found
  IN IF ids = 0 \/ ids = Len(bins) THEN NA ELSE ids

\* the outcomes of pd.cut: a ValueError for bins that do not increase
\* ("bins must increase monotonically") or that repeat an edge ("Bin edges
\* must be unique", unless there are exactly two bins), else the labels.
\* Bins that hold a NaN (after SetInf: inside only) raise in pandas 2; in
\* pandas 1 they pass the monotonicity test, raise when the NaN repeats, and
\* are searched as they are otherwise: NaN orders as the largest float, so
\* the binary search of a finite x in [-inf, NaN, +inf] stops at 1.
ValueError == [raised |-> "ValueError", labels |-> << >>]

Cut(x, bins) ==
  LET nanbins == \E i \in 1..Len(bins) : bins[i].kind = "nan"
      dups == HasDuplicates(bins) /\ Len(bins) # 2
  IN CASE nanbins ->
            {ValueError} \cup
            (IF dups THEN {}
             ELSE {[raised |-> "none", labels |-> [i \in 1..Len(x) |-> 1]]})
       [] ~IsMonotonicIncreasing(bins) -> {ValueError}
       [] dups -> {ValueError}
       [] OTHER -> {[raised |-> "none",
                     labels |-> [i \in 1..Len(x) |-> CutLabel(bins, x[i])]]}

\* data[sorting_variable], the column that is cut
Column(data, sorting_variable) ==
  [i \in 1..Len(data) |-> Get(data[i], sorting_variable)]

\* bivariate-sorts.py assign_portfolio(data, exchanges, sorting_variable,
\* n_portfolios): the breakpoints it builds and what pd.cut returns for them
Breakpoints(data, exchanges, sorting_variable, n_portfolios) ==
  SetInf(DropDuplicates(
    QuantileSeq(RefValues(data, exchanges, sorting_variable),
                Linspace(n_portfolios))))

\* a call that an exception leaves before the breakpoints are complete
Raises(exception) ==
  {[breakpoints |-> << >>, raised |-> exception, assigned_portfolios |-> << >>]}

\* .get(sorting_variable) of a name that is no column is None, and
\* None.quantile raises AttributeError before np.linspace is evaluated;
\* np.linspace raises ValueError for num < 0; for num = 0 the quantiles are
\* an empty series and breakpoints.iloc[0] = ... raises IndexError
AssignPortfolio(data, exchanges, sorting_variable, n_portfolios) ==
  CASE sorting_variable \notin SortingVariables -> Raises("AttributeError")
    [] n_portfolios + 1 < 0 -> Raises("ValueError")
    [] n_portfolios + 1 = 0 -> Raises("IndexError")
    [] OTHER ->
         LET b == Breakpoints(data, exchanges, sorting_variable, n_portfolios)
         IN {[breakpoints |-> b, raised |-> o.raised,
              assigned_portfolios |-> o.labels] :
               o \in Cut(Column(data, sorting_variable), b)}

\* ff-factors.py assign_portfolio(data, sorting_variable, percentiles): the
\* percentiles are written in tenths ([0, 0.3, 0.7, 1] is <<0, 3, 7, 10>>)
Tenths(percentiles) ==
  [k \in 1..Len(percentiles) |->
     [num |-> percentiles[k], den |-> 10, above |-> FALSE]]

BreakpointsFF(data, sorting_variable, percentiles) ==
  SetInf(QuantileSeq(RefValues(data, {"NYSE"}, sorting_variable),
                     Tenths(percentiles)))

AssignPortfolioFF(data, sorting_variable, percentiles) ==
  LET b == BreakpointsFF(data, sorting_variable, percentiles)
  IN {[breakpoints |-> b, raised |-> o.raised, assigned_portfolios |-> o.labels] :
        o \in Cut(Column(data, sorting_variable), b)}

\* the percentiles of the call sites: [0, 0.5, 1] and [0, 0.3, 0.7, 1]
Percentiles == {<<0, 5, 10>>, <<0, 3, 7, 10>>}

\* ----------------------------------------------------------------- state
VARIABLES
  data,                 \* the cross-section handed to assign_portfolio
  sorting_variable,     \* its sorting_variable argument
  n_portfolios,         \* its n_portfolios argument (bivariate-sorts.py)
  percentiles,          \* its percentiles argument (ff-factors.py)
  called,               \* which assign_portfolio has returned: "none",
                        \* "bivariate" or "ff"
  breakpoints,          \* the breakpoints the call built
  assigned_portfolios,  \* the labels it returned, one per row of data
  raised,               \* "none", or the exception that left the call
  merged,               \* bivariate-sorts.py: data_for_sorts as the two left
                        \* merges leave it (lines 57-68), a set of rows
  data_for_sorts,       \* data_for_sorts as lines 71-84 leave it:
                        \* date -> the rows of that date
  sorted_data,          \* date -> the rows with portfolio_me, portfolio_bm
  value_portfolios,     \* the rows (date, portfolio_bm, portfolio_me, ret)
  categories,           \* the categories of the columns portfolio_me and
                        \* portfolio_bm of sorted_data
  value_premium,        \* the premium of every date, and their mean
  sorting_variables,    \* ff-factors.py: sorting_date -> the rows of that date
  portfolios,           \* sorting_date -> the rows with portfolio_size and
                        \* portfolio_bm (lines 118-130)
  crsp_monthly,         \* the table crsp_monthly as the scripts read it
  book_equity,          \* bivariate-sorts.py: the rows (gvkey, date, be)
  compustat,            \* ff-factors.py: the rows (gvkey, datadate, be)
  portfolios_monthly,   \* ff-factors.py lines 135-145: the rows of
                        \* crsp_monthly with the labels of their sorting_date
  factors_replicated,   \* ff-factors.py lines 153-174: date -> the factors
  wrds,                 \* wrds-etc-data.py: the rows the WRDS queries return
  crsp_daily,           \* the table crsp_daily of the SQLite database, its
                        \* rows in the order they were written
  j_batch,              \* the batch j the loop of lines 320-388 runs next
  pc                    \* how far the script has run

callVars == <<data, sorting_variable, n_portfolios, percentiles, called,
              breakpoints, assigned_portfolios, raised>>
wrdsVars == <<wrds, crsp_daily, j_batch>>
tableVars == <<crsp_monthly, book_equity, compustat, wrdsVars>>
returnVars == <<portfolios_monthly, factors_replicated>>
factorVars == <<sorting_variables, portfolios, tableVars, returnVars>>
scriptVars == <<merged, data_for_sorts, sorted_data, categories, value_portfolios,
                value_premium, factorVars, pc>>

\* ff-factors.py has not been started
\* wrds-etc-data.py is not run
NoWrds ==
  /\ wrds = << >>
  /\ crsp_daily = << >>
  /\ j_batch = 1

NoTables ==
  /\ crsp_monthly = {}
  /\ book_equity = {}
  /\ compustat = {}
  /\ NoWrds

NoReturns ==
  /\ portfolios_monthly = {}
  /\ factors_replicated = << >>

NoFactors ==
  /\ sorting_variables = << >>
  /\ portfolios = << >>
  /\ NoTables
  /\ NoReturns

vars == <<callVars, scriptVars>>

\* the script has not been started (the model checks single calls)
\* the dtype of a label column: pd.cut returns a categorical with the
\* categories 1..len(bins)-1; the concatenation of categoricals whose
\* categories differ is a column of plain objects
Object == [categorical |-> FALSE, labels |-> {}]
Categorical(k) == [categorical |-> TRUE, labels |-> 1..k]
NoColumns == [portfolio_me |-> Object, portfolio_bm |-> Object]

NoScript ==
  /\ merged = {}
  /\ data_for_sorts = << >>
  /\ sorted_data = << >>
  /\ categories = NoColumns
  /\ value_portfolios = {}
  /\ value_premium = << >>
  /\ NoFactors
  /\ pc = "call"

\* no single call is looked at (the model checks the script)
NoCall ==
  /\ data = << >>
  /\ sorting_variable = "me"
  /\ n_portfolios = 1
  /\ percentiles = << >>
  /\ called = "none"
  /\ breakpoints = << >>
  /\ assigned_portfolios = << >>
  /\ raised = "none"

\* one row of data_for_sorts / sorting_variables for a given date
Row(e, me, bm, r, w) ==
  [exchange |-> e, me |-> me, bm |-> bm, ret_excess |-> r, mktcap_lag |-> w]

\* the rows in which only the column `v` varies
RowsOf(v) ==
  {Row(e, IF v = "me" THEN x ELSE 0, IF v = "bm" THEN x ELSE 0, 0, 1) :
     e \in Exchanges, x \in 0..MaxVal}

\* the cross-sections of a date: one row at least
CrossSections(rows) == UNION {[1..k -> rows] : k \in 1..MaxObs}

\* the cross-section of the end-to-end example: the reference values 10
\* and 20 and the value 15 outside the reference universe
ExampleData(v) ==
  <<Row("NYSE", IF v = "me" THEN 10 ELSE 0, IF v = "bm" THEN 10 ELSE 0, 0, 1),
    Row("NASDAQ", IF v = "me" THEN 15 ELSE 0, IF v = "bm" THEN 15 ELSE 0, 0, 1),
    Row("NYSE", IF v = "me" THEN 20 ELSE 0, IF v = "bm" THEN 20 ELSE 0, 0, 1)>>

Init ==
  /\ sorting_variable \in SortingVariables
  /\ data \in CrossSections(RowsOf(sorting_variable))
               \cup {ExampleData(sorting_variable)}
  /\ n_portfolios \in 1..MaxN
  /\ percentiles = << >>
  /\ called = "none"
  /\ breakpoints = << >>
  /\ assigned_portfolios = << >>
  /\ raised = "none"
  /\ NoScript

\* a call of bivariate-sorts.py assign_portfolio with exchanges=["NYSE"]
CallAssignPortfolio ==
  /\ called = "none"
  /\ \E o \in AssignPortfolio(data, {"NYSE"}, sorting_variable, n_portfolios) :
       /\ breakpoints' = o.breakpoints
       /\ assigned_portfolios' = o.assigned_portfolios
       /\ raised' = o.raised
  /\ called' = "bivariate"
  /\ UNCHANGED <<data, sorting_variable, n_portfolios, percentiles, scriptVars>>

\* a call of ff-factors.py assign_portfolio
CallAssignPortfolioFF ==
  /\ called = "none"
  /\ \E p \in Percentiles :
       /\ percentiles' = p
       /\ \E o \in AssignPortfolioFF(data, sorting_variable, p) :
            /\ breakpoints' = o.breakpoints
            /\ assigned_portfolios' = o.assigned_portfolios
            /\ raised' = o.raised
  /\ called' = "ff"
  /\ UNCHANGED <<data, sorting_variable, n_portfolios, scriptVars>>

Next == CallAssignPortfolio \/ CallAssignPortfolioFF

Spec == Init /\ [][Next]_vars

\* ------------------------------------------- assign_portfolio: C1 .. C5
\* what the returned call was given
Reference == RefValues(data, {"NYSE"}, sorting_variable)
Values == Column(data, sorting_variable)
Requested == IF called = "ff" THEN Len(percentiles) - 1 ELSE n_portfolios
Computed ==
  QuantileSeq(Reference,
              IF called = "ff" THEN Tenths(percentiles) ELSE Linspace(n_portfolios))
Tied == \E i, j \in 1..Len(Computed) : i < j /\ BpEq(Computed[i], Computed[j])
Minimum == CHOOSE v \in {Values[i] : i \in 1..Len(Values)} :
             \A i \in 1..Len(Values) : v <= Values[i]

\* C1: for a non-empty reference subset the breakpoints that assign_portfolio
\* builds are non-decreasing, at most n_portfolios+1 long, start with -inf
\* and end with +inf, also when the reference values are all equal.
C1_BreakpointsShape ==
  (called # "none" /\ Reference # << >>) =>
    /\ Len(breakpoints) <= Requested + 1
    /\ \A i \in 1..(Len(breakpoints) - 1) : ~BpLt(breakpoints[i + 1], breakpoints[i])
    /\ breakpoints[1] = NegInf
    /\ breakpoints[Len(breakpoints)] = PosInf

\* C2: every row of the cross-section gets a label in 1..len(breakpoints)-1;
\* none is left without a label.
C2_EveryRowLabelled ==
  (called # "none" /\ Reference # << >>) =>
    /\ raised = "none"
    /\ Len(assigned_portfolios) = Len(data)
    /\ \A i \in 1..Len(assigned_portfolios) :
         assigned_portfolios[i] \in 1..(Len(breakpoints) - 1)

\* C3: in both assign_portfolio variants the rows holding the minimum of
\* the sorting variable over the cross-section get label 1, also when the
\* lowest reference quantiles are tied.
C3_MinimumGetsLabelOne ==
  (called # "none" /\ Reference # << >> /\ raised = "none") =>
    \A i \in 1..Len(data) : Values[i] = Minimum => assigned_portfolios[i] = 1

\* C4: buckets are left-closed and right-open: a value equal to an interior
\* breakpoint gets the upper of the two adjacent portfolios; reference
\* values {10, 20} with n_portfolios = 2 give the breakpoints
\* [-inf, 15, +inf] and the values 10, 15, 20 the labels 1, 2, 2.
C4_LeftClosed ==
  (called # "none" /\ raised = "none") =>
    /\ \A i \in 1..Len(data) : \A j \in 2..(Len(breakpoints) - 1) :
         BpEqVal(breakpoints[j], Values[i]) => assigned_portfolios[i] = j
    /\ (called = "bivariate" /\ data = ExampleData(sorting_variable)
        /\ n_portfolios = 2) =>
         /\ Len(breakpoints) = 3
         /\ breakpoints[1] = NegInf
         /\ BpEq(breakpoints[2], Fin(15, 1))
         /\ breakpoints[3] = PosInf
         /\ assigned_portfolios = <<1, 2, 2>>

C4_Witness ==
  /\ called = "bivariate" /\ raised = "none"
  /\ data = ExampleData(sorting_variable) /\ n_portfolios = 2
  /\ \E i \in 1..Len(data) : BpEqVal(breakpoints[2], Values[i])

\* C5: tied quantiles never make the assignment fail: the duplicate
\* boundaries are removed and the call returns labels, in the n_portfolios
\* form and in the percentiles form.
C5_TiesNeverFail ==
  (called # "none" /\ Reference # << >> /\ Tied) =>
    /\ raised = "none"
    /\ ~HasDuplicates(breakpoints)

\* ------------------------------------------------- bivariate-sorts.py
\* n_portfolios=5 at every call site of the script
NPortfolios == 5

\* the dates of the table: every date is sorted on its own
FirstDate == "1960-01-01"
SecondDate == "1960-02-01"

\* the single outcome of a call inside groupby(...).apply(...): its labels
\* (the n_portfolios form drops duplicate edges, so its pd.cut never raises)
Labels(x, v) ==
  LET o == CHOOSE o \in AssignPortfolio(x, {"NYSE"}, v, NPortfolios) : TRUE
  IN o.assigned_portfolios

\* the number of labels of a call: labels=range(1, breakpoints.size)
Bins(x, v) == Len(Breakpoints(x, {"NYSE"}, v, NPortfolios)) - 1

\* the dtype of a label column that groupby(...).apply(...) puts together
\* from the pieces of its groups, given the numbers of labels of the pieces
Concat(sizes) ==
  IF Cardinality(sizes) = 1
  THEN Categorical(CHOOSE k \in sizes : TRUE)
  ELSE Object

\* x.assign(portfolio_bm=..., portfolio_me=...): the rows with two more columns
WithLabels(x, labels_me, labels_bm) ==
  [i \in 1..Len(x) |->
     [exchange |-> x[i].exchange, me |-> x[i].me, bm |-> x[i].bm,
      ret_excess |-> x[i].ret_excess, mktcap_lag |-> x[i].mktcap_lag,
      portfolio_me |-> labels_me[i], portfolio_bm |-> labels_bm[i]]]

\* the independent sort of one date: both variables against the date's
\* NYSE breakpoints
\* (not: bm against the NYSE breakpoints of the rows that share the label
\* of me)
NestedSortOf(x) ==
  LET sized == WithLabels(x, Labels(x, "me"), [i \in 1..Len(x) |-> NA])
  IN [i \in 1..Len(x) |->
        [sized[i] EXCEPT !.portfolio_bm =
           CutLabel(Breakpoints(SelectSeq(sized,
                                          LAMBDA r : r.portfolio_me = sized[i].portfolio_me),
                                {"NYSE"}, "bm", NPortfolios),
                    x[i].bm)]]

IndependentSortOf(x) ==
  WithLabels(x, Labels(x, "me"), Labels(x, "bm"))

\* lines 118-129: groupby("date").apply(assign portfolio_bm, portfolio_me)
\* (not: every date against the rows of all dates, nor the second date
\* against its rows and those of the first)
SortAgainst(x, reference) ==
  WithLabels(x,
    [i \in 1..Len(x) |->
       CutLabel(Breakpoints(reference, {"NYSE"}, "me", NPortfolios), x[i].me)],
    [i \in 1..Len(x) |->
       CutLabel(Breakpoints(reference, {"NYSE"}, "bm", NPortfolios), x[i].bm)])

IndependentSortPooled ==
  /\ pc = "loaded"
  /\ sorted_data' =
       [d \in DOMAIN data_for_sorts |->
          SortAgainst(data_for_sorts[d],
                      data_for_sorts[FirstDate] \o data_for_sorts[SecondDate])]
  /\ categories' = [portfolio_me |-> Object, portfolio_bm |-> Object]
  /\ pc' = "independent"
  /\ UNCHANGED <<callVars, factorVars, merged,
                 data_for_sorts, value_portfolios, value_premium>>

IndependentSortCarried ==
  /\ pc = "loaded"
  /\ sorted_data' =
       [d \in DOMAIN data_for_sorts |->
          SortAgainst(data_for_sorts[d],
                      IF d = FirstDate THEN data_for_sorts[d]
                      ELSE data_for_sorts[FirstDate] \o data_for_sorts[d])]
  /\ categories' = [portfolio_me |-> Object, portfolio_bm |-> Object]
  /\ pc' = "independent"
  /\ UNCHANGED <<callVars, factorVars, merged,
                 data_for_sorts, value_portfolios, value_premium>>

IndependentSort ==
  /\ pc = "loaded"
  /\ sorted_data' = [d \in DOMAIN data_for_sorts |-> IndependentSortOf(data_for_sorts[d])]
  /\ categories' =
       [portfolio_me |-> Concat({Bins(data_for_sorts[d], "me") : d \in DOMAIN data_for_sorts}),
        portfolio_bm |-> Concat({Bins(data_for_sorts[d], "bm") : d \in DOMAIN data_for_sorts})]
  /\ pc' = "independent"
  /\ UNCHANGED <<callVars, factorVars, merged,
                 data_for_sorts, value_portfolios, value_premium>>

\* lines 159-167: groupby("date").apply(assign portfolio_me); portfolio_bm is
\* not a column yet (NA here)
DependentSortMe ==
  /\ pc = "loaded"
  /\ sorted_data' =
       [d \in DOMAIN data_for_sorts |->
          LET x == data_for_sorts[d]
          IN WithLabels(x, Labels(x, "me"), [i \in 1..Len(x) |-> NA])]
  /\ categories' =
       [portfolio_me |-> Concat({Bins(data_for_sorts[d], "me") : d \in DOMAIN data_for_sorts}),
        portfolio_bm |-> Object]
  /\ pc' = "dependent_me"
  /\ UNCHANGED <<callVars, factorVars, merged,
                 data_for_sorts, value_portfolios, value_premium>>

\* the rows of x, in order, that carry the label g in portfolio_me
GroupAll(x, g) == x

Group(x, g) == SelectSeq(x, LAMBDA r : r.portfolio_me = g)

\* the dependent sort of one date, portfolio_me given: groupby(["date",
\* "portfolio_me"]) leaves out the rows whose portfolio_me is NaN and
\* assigns portfolio_bm inside every group against the group's own NYSE
\* rows; a row takes the label that the call on its group returns for it
LabelIn(group, row) ==
  Labels(group, "bm")[CHOOSE j \in 1..Len(group) : group[j] = row]

CollapsedSortOf(x) ==
  [i \in 1..Len(x) |-> [x[i] EXCEPT !.portfolio_bm = Labels(x, "bm")[i]]]

DependentSortOf(x) ==
  LET kept == SelectSeq(x, LAMBDA r : r.portfolio_me # NA)
  IN [i \in 1..Len(kept) |->
        [kept[i] EXCEPT !.portfolio_bm =
           LabelIn(Group(kept, kept[i].portfolio_me), kept[i])]]

\* lines 170-177: groupby(["date", "portfolio_me"]).apply(assign portfolio_bm)
DependentSortBm ==
  /\ pc = "dependent_me"
  /\ sorted_data' = [d \in DOMAIN sorted_data |-> DependentSortOf(sorted_data[d])]
  /\ categories' =
       [categories EXCEPT !.portfolio_bm =
          Concat(UNION {{Bins(Group(sorted_data[d], sorted_data[d][i].portfolio_me), "bm") :
                           i \in {j \in 1..Len(sorted_data[d]) :
                                    sorted_data[d][j].portfolio_me # NA}} :
                        d \in DOMAIN sorted_data})]
  /\ pc' = "dependent"
  /\ UNCHANGED <<callVars, factorVars, merged,
                 data_for_sorts, value_portfolios, value_premium>>

\* ---------------------------------------------- returns and premium
\* float arithmetic on finite values num/den, kept exact and in lowest terms
RECURSIVE GCD(_, _)
GCD(a, b) == IF b = 0 THEN a ELSE GCD(b, a % b)

Abs(a) == IF a < 0 THEN -a ELSE a

Reduced(n, d) ==
  LET g == GCD(Abs(n), d)
  IN Fin(n \div g, d \div g)

FAdd(a, b) == Reduced(a.num * b.den + b.num * a.den, a.den * b.den)
FSub(a, b) == Reduced(a.num * b.den - b.num * a.den, a.den * b.den)
FDiv(a, k) == Reduced(a.num, a.den * k)

\* DataFrame.round(4) of a float given in percent: the nearest multiple of
\* 0.0001, halves to the even one; the result is in units of 0.0001
Round4(a) ==
  LET n == a.num * 100
      q == n \div a.den
      rem == n - q * a.den
  IN CASE 2 * rem < a.den -> q
       [] 2 * rem > a.den -> q + 1
       [] OTHER -> IF q % 2 = 0 THEN q ELSE q + 1

RECURSIVE SumRetWeight(_)
SumRetWeight(rows) ==
  IF rows = << >> THEN 0
  ELSE rows[1].ret_excess * rows[1].mktcap_lag + SumRetWeight(Tail(rows))

RECURSIVE SumWeight(_)
SumWeight(rows) ==
  IF rows = << >> THEN 0 ELSE rows[1].mktcap_lag + SumWeight(Tail(rows))

RECURSIVE SumRet(_)
SumRet(rows) ==
  IF rows = << >> THEN 0 ELSE rows[1].ret_excess + SumRet(Tail(rows))

\* np.average(x["ret_excess"], weights=x["mktcap_lag"]) of the rows of one
\* group (a group has one row at least): sum(ret*w) / sum(w), not reduced
NpAverageUnweighted(rows) == Fin(SumRet(rows), Len(rows))

\* (x["ret_excess"] * x["mktcap_lag"]).mean(): the products not normalised
\* by the weights
NpAverageOfProducts(rows) == Fin(SumRetWeight(rows), Len(rows))

NpAverage(rows) == Fin(SumRetWeight(rows), SumWeight(rows))

\* the label pairs that occur among the rows of a date; a row with a NaN
\* key is in no group
GroupKeys(x) ==
  {k \in {<<x[i].portfolio_bm, x[i].portfolio_me>> : i \in 1..Len(x)} :
     k[1] # NA /\ k[2] # NA}

Members(x, k) ==
  SelectSeq(x, LAMBDA r : r.portfolio_bm = k[1] /\ r.portfolio_me = k[2])

\* the levels of a key column of groupby: its categories when it is a
\* categorical (observed=False), else the labels that occur in a group
Levels(column, occurring) ==
  IF column.categorical THEN column.labels ELSE occurring

\* groupby(["date", "portfolio_bm", "portfolio_me"]).apply(...): the result
\* has a row per group; with a categorical among the keys it is reindexed to
\* every combination of the levels of the keys (the dates being those with a
\* group), and a combination without a row has the return NaN
ResultKeys(sorted, cats) ==
  LET occurring == UNION {GroupKeys(sorted[d]) : d \in DOMAIN sorted}
      dates == {d \in DOMAIN sorted : GroupKeys(sorted[d]) # {}}
  IN IF cats.portfolio_bm.categorical \/ cats.portfolio_me.categorical
     THEN dates \X Levels(cats.portfolio_bm, {k[1] : k \in occurring})
                \X Levels(cats.portfolio_me, {k[2] : k \in occurring})
     ELSE UNION {{<<d, k[1], k[2]>> : k \in GroupKeys(sorted[d])} : d \in dates}

\* lines 130-136 and 180-186: the value-weighted return of every group;
\* np.average raises ZeroDivisionError for weights that sum to zero
PortfolioReturns ==
  /\ pc \in {"independent", "dependent"}
  /\ IF \E d \in DOMAIN sorted_data : \E k \in GroupKeys(sorted_data[d]) :
          SumWeight(Members(sorted_data[d], k)) = 0
     THEN /\ raised' = "ZeroDivisionError"
          /\ pc' = "failed"
          /\ UNCHANGED value_portfolios
     ELSE /\ value_portfolios' =
               {[date |-> k[1], portfolio_bm |-> k[2], portfolio_me |-> k[3],
                 ret |-> LET rows == Members(sorted_data[k[1]], <<k[2], k[3]>>)
                         IN IF rows = << >> THEN NaN ELSE NpAverage(rows)] :
                  k \in ResultKeys(sorted_data, categories)}
          /\ pc' = IF pc = "independent" THEN "independent_returns"
                                         ELSE "dependent_returns"
          /\ UNCHANGED raised
  /\ UNCHANGED <<data, sorting_variable, n_portfolios, percentiles, called,
                 breakpoints, assigned_portfolios, factorVars,
                 merged, data_for_sorts, sorted_data, categories, value_premium>>

\* Series.mean() of the column ret of a set of table rows: the NaN are
\* skipped, and the mean of nothing is NaN
RECURSIVE SumOf(_)
SumOf(rows) ==
  IF rows = {} THEN Fin(0, 1)
  ELSE LET r == CHOOSE r \in rows : TRUE
       IN FAdd(r.ret, SumOf(rows \ {r}))

Mean(rows) ==
  LET finite == {r \in rows : r.ret.kind = "fin"}
  IN IF finite = {} THEN NaN ELSE FDiv(SumOf(finite), Cardinality(finite))

\* groupby(["date", "portfolio_bm"]).aggregate({"ret": "mean"}): the mean
\* return of the label b of date d across its size portfolios
LabelMean(table, d, b) ==
  Mean({r \in table : r.date = d /\ r.portfolio_bm = b})

LabelsOf(table, d) == {r.portfolio_bm : r \in {q \in table : q.date = d}}

Max(S) == CHOOSE m \in S : \A n \in S : n <= m
Min(S) == CHOOSE m \in S : \A n \in S : m <= n

\* a - b on floats
Minus(a, b) ==
  IF a.kind = "fin" /\ b.kind = "fin" THEN FSub(a, b) ELSE NaN

\* the premium of date d: the mean return of the highest portfolio_bm among
\* the rows of the date minus that of the lowest
PremiumReversed(table, d) ==
  Minus(LabelMean(table, d, Min(LabelsOf(table, d))),
        LabelMean(table, d, Max(LabelsOf(table, d))))

Premium(table, d) ==
  Minus(LabelMean(table, d, Max(LabelsOf(table, d))),
        LabelMean(table, d, Min(LabelsOf(table, d))))

\* lines 139-152 and 189-202: the premium of every date of the table, and
\* .aggregate({"value_premium": "mean"}) over the dates
ValuePremium ==
  /\ pc \in {"independent_returns", "dependent_returns"}
  /\ LET dates == {r.date : r \in value_portfolios}
         by_date == [d \in dates |-> Premium(value_portfolios, d)]
     IN value_premium' =
          [by_date |-> by_date,
           mean |-> Mean({[date |-> d, ret |-> by_date[d]] : d \in dates})]
  /\ pc' = "done"
  /\ UNCHANGED <<callVars, factorVars, merged,
                 data_for_sorts, sorted_data, categories, value_portfolios>>

\* ------------------------------------------------------ specifications
\* Independent sort of two dates that hold the same NYSE rows and any
\* other rows: a pair of rows, one per date, is one NYSE row twice or any
\* two rows of another exchange.
RowPairs(v) ==
  {<<r, r>> : r \in {q \in RowsOf(v) : q.exchange = "NYSE"}}
    \cup ({q \in RowsOf(v) : q.exchange # "NYSE"}
            \X {q \in RowsOf(v) : q.exchange # "NYSE"})

\* The table is sorted by firm and date, so the rows of a date come in one
\* order; quantile and pd.cut read values, not positions, and the rows of
\* the first date are listed here by exchange, me and bm (a firm keeps its
\* position at the second date).
RowRank(r) ==
  ((IF r.exchange = "NYSE" THEN 0 ELSE 1) * (MaxVal + 1) + r.me) * (MaxVal + 1)
    + r.bm

InOrder(x) == \A i \in 1..(Len(x) - 1) : RowRank(x[i]) <= RowRank(x[i + 1])

PairsInOrder(pairs) ==
  \A i \in 1..(Len(pairs) - 1) :
    \/ RowRank(pairs[i][1]) < RowRank(pairs[i + 1][1])
    \/ /\ RowRank(pairs[i][1]) = RowRank(pairs[i + 1][1])
       /\ RowRank(pairs[i][2]) <= RowRank(pairs[i + 1][2])

InitIndep ==
  /\ NoCall
  /\ merged = {}
  /\ \E v \in SortingVariables : \E k \in 1..MaxObs :
     \E pairs \in {q \in [1..k -> RowPairs(v)] : PairsInOrder(q)} :
       data_for_sorts = (FirstDate :> [i \in 1..k |-> pairs[i][1]])
                          @@ (SecondDate :> [i \in 1..k |-> pairs[i][2]])
  /\ sorted_data = << >>
  /\ categories = NoColumns
  /\ value_portfolios = {}
  /\ value_premium = << >>
  /\ NoFactors
  /\ pc = "loaded"

SpecIndep == InitIndep /\ [][IndependentSort]_vars

\* Dependent sort of one date in which exchange, me and bm vary.
RowsMeBm == {Row(e, me, bm, 0, 1) : e \in Exchanges, me \in 0..MaxVal, bm \in 0..MaxBm}

InitDep ==
  /\ NoCall
  /\ merged = {}
  /\ \E x \in {y \in CrossSections(RowsMeBm) : InOrder(y)} :
       data_for_sorts = (FirstDate :> x)
  /\ sorted_data = << >>
  /\ categories = NoColumns
  /\ value_portfolios = {}
  /\ value_premium = << >>
  /\ NoFactors
  /\ pc = "loaded"

NextDep == DependentSortMe \/ DependentSortBm \/ PortfolioReturns

SpecDep == InitDep /\ [][NextDep]_vars

\* Portfolio returns of given sorted rows: the label pairs, returns (in
\* percent) and weights vary; a row without portfolio_bm is among them.
RetKeys == {<<1, 1>>, <<1, 2>>, <<NA, 1>>}
RetValues == {-1, 5, 10}
WeightValues == {50, 100}

SortedRows ==
  {[exchange |-> "NYSE", me |-> 0, bm |-> 0, ret_excess |-> r, mktcap_lag |-> w,
    portfolio_me |-> k[2], portfolio_bm |-> k[1]] :
     k \in RetKeys, r \in RetValues, w \in WeightValues}

InitRet ==
  /\ NoCall
  /\ merged = {}
  /\ data_for_sorts = << >>
  /\ \E x \in CrossSections(SortedRows) : sorted_data = (FirstDate :> x)
  /\ categories \in {NoColumns,
                     [portfolio_me |-> Categorical(2), portfolio_bm |-> Categorical(2)]}
  /\ value_portfolios = {}
  /\ value_premium = << >>
  /\ NoFactors
  /\ pc \in {"independent", "dependent"}

NextRet == PortfolioReturns \/ ValuePremium

SpecRet == InitRet /\ [][NextRet]_vars

\* Value premium of a given return table of one date: the table of the
\* groups that occur, each with a return of 2, 3 or 7 percent, or the table
\* of all combinations of the categories 1..n and 1..2, with the return NaN
\* where no group occurs.
TableReturns == {2, 3, 7}
TableKeys == (1..MaxLabel) \X (1..2)

InitPremium ==
  /\ NoCall
  /\ merged = {}
  /\ data_for_sorts = << >>
  /\ sorted_data = << >>
  /\ \/ /\ categories = NoColumns
        /\ \E keys \in (SUBSET TableKeys) \ {{}} : \E r \in [keys -> TableReturns] :
             value_portfolios =
               {[date |-> FirstDate, portfolio_bm |-> k[1], portfolio_me |-> k[2],
                 ret |-> Fin(r[k], 1)] : k \in keys}
     \/ /\ \E n \in 1..MaxLabel :
             /\ categories = [portfolio_me |-> Categorical(2),
                              portfolio_bm |-> Categorical(n)]
             /\ \E keys \in (SUBSET ((1..n) \X (1..2))) \ {{}} :
                  \E r \in [keys -> TableReturns] :
                    value_portfolios =
                      {[date |-> FirstDate, portfolio_bm |-> k[1], portfolio_me |-> k[2],
                        ret |-> IF k \in keys THEN Fin(r[k], 1) ELSE NaN] :
                         k \in (1..n) \X (1..2)}
  /\ value_premium = << >>
  /\ NoFactors
  /\ pc \in {"independent_returns", "dependent_returns"}

SpecPremium == InitPremium /\ [][ValuePremium]_vars

\* ------------------------------------------------- the sorts: C6 .. C8
First == sorted_data[FirstDate]
Second == sorted_data[SecondDate]
PortfolioOf(row, v) == IF v = "me" THEN row.portfolio_me ELSE row.portfolio_bm

\* how many NYSE rows of x hold the value a of the variable v
NyseCount(x, v, a) ==
  Cardinality({i \in 1..Len(x) : x[i].exchange = "NYSE" /\ Get(x[i], v) = a})

SameNyseValues(v) ==
  \A a \in 0..MaxVal : NyseCount(First, v, a) = NyseCount(Second, v, a)

\* C6: in the independent sort the label of a row depends on its own value
\* and on the NYSE values of its date only: in two cross-sections with the
\* same NYSE values, rows with the same value get the same label.
C6_LabelFromNyseOnly ==
  pc = "independent" =>
    \A v \in SortingVariables :
      SameNyseValues(v) =>
        \A i \in 1..Len(First) : \A j \in 1..Len(Second) :
          Get(First[i], v) = Get(Second[j], v) =>
            PortfolioOf(First[i], v) = PortfolioOf(Second[j], v)

\* two dates whose other rows differ, with a NYSE row labelled above 1
C6_Witness ==
  /\ pc = "independent"
  /\ \E v \in SortingVariables :
       /\ SameNyseValues(v)
       /\ \E i \in 1..Len(First) :
            /\ First[i].exchange # "NYSE"
            /\ Get(First[i], v) # Get(Second[i], v)
            /\ PortfolioOf(First[i], v) # PortfolioOf(Second[i], v)
       /\ \E i \in 1..Len(First) : \E j \in 1..Len(Second) :
            /\ First[i].exchange = "NYSE"
            /\ Get(First[i], v) = Get(Second[j], v)
            /\ PortfolioOf(First[i], v) > 1

\* the bm of the NYSE rows of x that carry the label g in portfolio_me
NyseBmOfGroup(x, g) ==
  LET in == SelectSeq(x, LAMBDA r : r.exchange = "NYSE" /\ r.portfolio_me = g)
  IN [i \in 1..Len(in) |-> in[i].bm]

NyseBmOfDate(x) ==
  LET in == SelectSeq(x, LAMBDA r : r.exchange = "NYSE")
  IN [i \in 1..Len(in) |-> in[i].bm]

LabelAgainst(reference, a) ==
  CutLabel(SetInf(DropDuplicates(QuantileSeq(reference, Linspace(NPortfolios)))), a)

\* C7: in the dependent sort the portfolio_bm of a row is its bm cut at the
\* breakpoints of exactly the NYSE rows of its date that carry its
\* portfolio_me, not at those of the date's whole NYSE universe.
C7_BreakpointsPerGroup ==
  pc = "dependent" =>
    \A i \in 1..Len(First) :
      First[i].portfolio_bm =
        LabelAgainst(NyseBmOfGroup(First, First[i].portfolio_me), First[i].bm)

\* a row whose label inside its size group is not the label that the
\* breakpoints of the whole date would give it
C7_Witness ==
  /\ pc = "dependent"
  /\ \E i \in 1..Len(First) :
       /\ First[i].portfolio_bm # NA
       /\ LabelAgainst(NyseBmOfDate(First), First[i].bm) # NA
       /\ First[i].portfolio_bm # LabelAgainst(NyseBmOfDate(First), First[i].bm)

\* the weight of the rows behind the returns of a table: ret.den is the
\* sum of the weights of a portfolio
RECURSIVE TotalWeight(_)
TotalWeight(table) ==
  IF table = {} THEN 0
  ELSE LET t == CHOOSE t \in table : TRUE
       IN (IF t.ret.kind = "fin" THEN t.ret.den ELSE 0) + TotalWeight(table \ {t})

\* C8: after the dependent sort every row of the cross-section has both
\* labels in range, and the rows that make up the portfolio returns of the
\* date are all its rows (with unit weights: the weights of the portfolios
\* add up to the number of rows).
C8_NoRowLost ==
  /\ pc = "dependent" =>
       /\ Len(First) = Len(data_for_sorts[FirstDate])
       /\ \A i \in 1..Len(First) :
            /\ First[i].portfolio_me \in 1..NPortfolios
            /\ First[i].portfolio_bm \in 1..NPortfolios
  /\ pc = "dependent_returns" =>
       TotalWeight(value_portfolios) = Len(data_for_sorts[FirstDate])

\* ------------------------------------ returns and premium: C9, C10
\* the rows of the first date that carry the labels of the table row t
Carriers(t) ==
  {i \in 1..Len(First) : /\ First[i].portfolio_bm = t.portfolio_bm
                         /\ First[i].portfolio_me = t.portfolio_me}

RECURSIVE SumRetTimesWeight(_)
SumRetTimesWeight(I) ==
  IF I = {} THEN 0
  ELSE LET i == CHOOSE i \in I : TRUE
       IN First[i].ret_excess * First[i].mktcap_lag + SumRetTimesWeight(I \ {i})

RECURSIVE SumOfWeights(_)
SumOfWeights(I) ==
  IF I = {} THEN 0
  ELSE LET i == CHOOSE i \in I : TRUE
       IN First[i].mktcap_lag + SumOfWeights(I \ {i})

\* the portfolio of the example: (ret 0.05, weight 100) and (ret 0.10, weight 50)
IsExamplePortfolio(I) ==
  /\ Cardinality(I) = 2
  /\ \E i \in I : First[i].ret_excess = 5 /\ First[i].mktcap_lag = 100
  /\ \E i \in I : First[i].ret_excess = 10 /\ First[i].mktcap_lag = 50

\* C9: the return of a portfolio is sum(ret_excess * mktcap_lag) /
\* sum(mktcap_lag) over exactly the rows that carry its labels, every
\* portfolio with a row has a return, and the members (0.05, 100) and
\* (0.10, 50) give 0.0667 after rounding to 4 decimals.
C9_ValueWeightedReturn ==
  pc \in {"independent_returns", "dependent_returns"} =>
    /\ \A t \in value_portfolios :
         /\ (Carriers(t) # {}) <=> (t.ret.kind = "fin")
         /\ Carriers(t) # {} =>
              /\ t.ret.num * SumOfWeights(Carriers(t))
                   = SumRetTimesWeight(Carriers(t)) * t.ret.den
              /\ IsExamplePortfolio(Carriers(t)) => Round4(t.ret) = 667
    /\ \A i \in 1..Len(First) :
         (First[i].portfolio_bm # NA /\ First[i].portfolio_me # NA) =>
           \E t \in value_portfolios : i \in Carriers(t)

C9_Witness ==
  /\ pc \in {"independent_returns", "dependent_returns"}
  /\ \E t \in value_portfolios :
       IsExamplePortfolio(Carriers(t)) /\ Round4(t.ret) = 667
  /\ \E i \in 1..Len(First) : First[i].portfolio_bm = NA

\* the portfolios of the return table that carry the label b
OfLabel(b) ==
  {t \in value_portfolios : t.portfolio_bm = b /\ t.ret.kind = "fin"}

RECURSIVE SumOfPercents(_)
SumOfPercents(table) ==
  IF table = {} THEN 0
  ELSE LET t == CHOOSE t \in table : TRUE
       IN t.ret.num + SumOfPercents(table \ {t})

\* the labels of the sort: those of the table, with or without a portfolio
TableLabels == {t.portfolio_bm : t \in value_portfolios}
Highest == CHOOSE b \in TableLabels : \A c \in TableLabels : c <= b
Lowest == CHOOSE b \in TableLabels : \A c \in TableLabels : b <= c

\* the table of the example: mean returns 0.02, 0.03, 0.07 of the labels 1, 2, 3
IsExampleTable ==
  /\ TableLabels = {1, 2, 3}
  /\ \A b \in 1..3 : OfLabel(b) # {}
  /\ \A t \in OfLabel(1) : t.ret.num = 2
  /\ \A t \in OfLabel(2) : t.ret.num = 3
  /\ \A t \in OfLabel(3) : t.ret.num = 7

\* C10: the value premium of a date is the mean return, with equal weight
\* across its size portfolios, of the portfolios that carry the highest
\* portfolio_bm of the sort minus that of those that carry the lowest (NaN
\* when one of the two labels has no portfolio); the mean returns
\* {1: 0.02, 2: 0.03, 3: 0.07} give 0.05.
\* (Returns of the table are whole percents here: ret.den = 1.)
C10_ValuePremium ==
  (pc = "done" /\ \A t \in value_portfolios : t.ret.kind = "fin" => t.ret.den = 1) =>
    /\ DOMAIN value_premium.by_date = {FirstDate}
    /\ LET p == value_premium.by_date[FirstDate]
           nh == Cardinality(OfLabel(Highest))
           nl == Cardinality(OfLabel(Lowest))
       IN /\ (nh > 0 /\ nl > 0) =>
               /\ p.kind = "fin"
               /\ p.num * nh * nl
                    = p.den * (nl * SumOfPercents(OfLabel(Highest))
                                 - nh * SumOfPercents(OfLabel(Lowest)))
          /\ (nh = 0 \/ nl = 0) => p.kind = "nan"
          /\ IsExampleTable => (p.kind = "fin" /\ p.num = 5 * p.den)

C10_Witness ==
  /\ pc = "done"
  /\ IsExampleTable
  /\ Cardinality(OfLabel(3)) = 2
  /\ Cardinality(OfLabel(1)) = 1
  /\ value_premium.by_date[FirstDate] = Fin(5, 1)

\* ------------------------------------------- error conditions: C11, C12
\* C11: when the date (or the size group) holds no row of the reference
\* exchanges, assign_portfolio fails with an exception that reaches its
\* caller; it returns no assignment built from an empty reference subset.
C11_EmptyReferenceFails ==
  (called # "none" /\ Reference = << >>) =>
    /\ raised # "none"
    /\ assigned_portfolios = << >>

\* C12: a portfolio without a member has no return in the table: the
\* computation fails instead; no NaN return reaches the table of returns
\* and no NaN premium is derived from it.
C12_EmptyPortfolioFails ==
  /\ pc \in {"independent_returns", "dependent_returns", "done"} =>
       \A t \in value_portfolios : t.ret.kind = "fin"
  /\ pc = "done" =>
       \A d \in DOMAIN value_premium.by_date : value_premium.by_date[d].kind = "fin"

\* ------------------------------------------------ configuration: C13
\* Calls of bivariate-sorts.py assign_portfolio with any n_portfolios from
\* -2 on and with the name of a column or the name "op", which is no column
\* of data_for_sorts.
InitConfig ==
  /\ sorting_variable \in SortingVariables \cup {"op"}
  /\ data \in CrossSections(RowsOf(IF sorting_variable = "bm" THEN "bm" ELSE "me"))
  /\ n_portfolios \in (-2)..MaxN
  /\ percentiles = << >>
  /\ called = "none"
  /\ breakpoints = << >>
  /\ assigned_portfolios = << >>
  /\ raised = "none"
  /\ NoScript

SpecConfig == InitConfig /\ [][CallAssignPortfolio]_vars

\* C13: a call with n_portfolios < 1 or with a sorting variable that is no
\* column of the data fails before any breakpoint is computed and returns
\* no assignment.
C13_InvalidConfigurationFails ==
  (called = "bivariate"
   /\ (n_portfolios < 1 \/ sorting_variable \notin SortingVariables)) =>
    /\ raised # "none"
    /\ breakpoints = << >>
    /\ assigned_portfolios = << >>

\* ------------------------------------- data_for_sorts: C14, C15
\* Dates are months, counted from 1.  crsp_monthly and book_equity are read
\* with .dropna(), so a row of the merged table has every column of
\* crsp_monthly; me is missing without a row of the month before, bm and
\* comp_date are missing together, without a book equity of six months
\* before.  The bm that became available at the sorting date c is written
\* c, so that a value carried forward shows where it comes from.
MaxAge == 12        \* x["date"] - pd.DateOffset(months=12)
Missing == -1       \* the NaN (NaT) of a column after a left merge

Months == {1, 2, MaxAge, MaxAge + 1, MaxAge + 2}

MergedRow(firm, date, me, known) ==
  [permno |-> firm, gvkey |-> firm, date |-> date, ret_excess |-> 0,
   mktcap_lag |-> 1, me |-> me, bm |-> IF known THEN date ELSE Missing,
   exchange |-> "NYSE", comp_date |-> IF known THEN date ELSE Missing]

\* groupby(["permno", "gvkey"]): the rows of one firm
SameFirm(r, q) == r.permno = q.permno /\ r.gvkey = q.gvkey

\* x[column].fillna(method="ffill") in the rows of a firm sorted by date:
\* the last value of the column at or before the row that is not missing
FFill(rows, r, column) ==
  LET before == {q \in rows : SameFirm(r, q) /\ q.date <= r.date
                              /\ q[column] # Missing}
  IN IF before = {} THEN Missing
     ELSE (CHOOSE q \in before : \A o \in before : o.date <= q.date)[column]

\* .query("comp_date > threshold_date") with threshold_date = date - 12
\* months; a comparison with NaT is False
Fresh(r) == r.comp_date # Missing /\ r.comp_date > r.date - MaxAge

\* .dropna(): the rows without a missing value
FillNa(rows) ==
  {[r EXCEPT !.me = IF r.me = Missing THEN 0 ELSE r.me] : r \in rows}

DropNa(rows) ==
  {r \in rows : r.me # Missing /\ r.bm # Missing /\ r.ret_excess # Missing
                /\ r.mktcap_lag # Missing}

\* .drop(columns=["comp_date", "threshold_date"])
DropColumns(r) ==
  [permno |-> r.permno, gvkey |-> r.gvkey, date |-> r.date,
   ret_excess |-> r.ret_excess, mktcap_lag |-> r.mktcap_lag, me |-> r.me,
   bm |-> r.bm, exchange |-> r.exchange]

\* the rows of a set in the order of permno
RECURSIVE ByPermno(_)
ByPermno(rows) ==
  IF rows = {} THEN << >>
  ELSE LET r == CHOOSE r \in rows : \A q \in rows : r.permno <= q.permno
       IN <<r>> \o ByPermno(rows \ {r})

\* lines 71-84: carry bm and comp_date forward inside every firm, keep the
\* rows whose comp_date is newer than twelve months, drop the rows with a
\* missing value
DataForSorts ==
  /\ pc = "merged"
  /\ LET filled == {[r EXCEPT !.bm = FFill(merged, r, "bm"),
                              !.comp_date = FFill(merged, r, "comp_date")] :
                      r \in merged}
         kept == DropNa({DropColumns(r) : r \in {q \in filled : Fresh(q)}})
         dates == {r.date : r \in kept}
     IN data_for_sorts' = [d \in dates |-> ByPermno({r \in kept : r.date = d})]
  /\ pc' = "loaded"
  /\ UNCHANGED <<callVars, factorVars, merged, sorted_data, categories, value_portfolios,
                 value_premium>>

\* The merged table of one firm with up to MaxObs months, and of a second
\* firm with one month at most.
InitLoad ==
  /\ NoCall
  /\ \E D \in {S \in SUBSET Months : Cardinality(S) \in 1..MaxObs} :
     \E f \in [D -> {Missing, 0} \X BOOLEAN] :
     \E other \in {{}} \cup {{MergedRow(2, d, 0, k)} : d \in Months, k \in BOOLEAN} :
       merged = {MergedRow(1, d, f[d][1], f[d][2]) : d \in D} \cup other
  /\ data_for_sorts = << >>
  /\ sorted_data = << >>
  /\ categories = NoColumns
  /\ value_portfolios = {}
  /\ value_premium = << >>
  /\ NoFactors
  /\ pc = "merged"

SpecLoad == InitLoad /\ [][DataForSorts]_vars

\* the rows of data_for_sorts
Loaded ==
  UNION {{data_for_sorts[d][i] : i \in 1..Len(data_for_sorts[d])} :
           d \in DOMAIN data_for_sorts}

\* the row of the merged table that a row of data_for_sorts comes from
SourceOf(r) == {m \in merged : m.permno = r.permno /\ m.date = r.date}

\* the newest sorting date of the firm of m with a bm, at or before m.date
NewestBm(m) ==
  LET known == {q \in merged : q.permno = m.permno /\ q.gvkey = m.gvkey
                               /\ q.date <= m.date /\ q.bm # Missing}
  IN IF known = {} THEN Missing
     ELSE CHOOSE c \in {q.date : q \in known} : \A q \in known : q.date <= c

C15_CarryForward ==
  (pc = "loaded" /\ merged # {}) =>
    \A m \in {q \in merged : q.me # Missing} :
      LET c == NewestBm(m)
          rows == {r \in Loaded : r.permno = m.permno /\ r.date = m.date}
      IN /\ (c # Missing /\ m.date - c <= MaxAge) =>
              (rows # {} /\ \A r \in rows : r.bm = c)
         /\ (c = Missing \/ m.date - c > MaxAge) => rows = {}

\* ------------------------------------------------- relations: C16 ..
\* C16: in one call of assign_portfolio the labels are monotone in the
\* value: of two rows the one with the smaller or equal value has the
\* smaller or equal label.
C16_LabelsMonotone ==
  (called # "none" /\ raised = "none") =>
    \A i, j \in 1..Len(data) :
      (Values[i] <= Values[j] /\ assigned_portfolios[i] # NA
       /\ assigned_portfolios[j] # NA) =>
        assigned_portfolios[i] <= assigned_portfolios[j]

\* three rows with three values and three labels
C16_Witness ==
  /\ called = "bivariate" /\ raised = "none"
  /\ \E i, j, k \in 1..Len(data) :
       /\ Values[i] < Values[j] /\ Values[j] < Values[k]
       /\ NA < assigned_portfolios[i]
       /\ assigned_portfolios[i] < assigned_portfolios[j]
       /\ assigned_portfolios[j] < assigned_portfolios[k]

\* a cross-section in which bm rises with me: two small NYSE firms with
\* bm 0 and 1, one large NYSE firm with bm 1
Correlated ==
  <<Row("NYSE", 0, 0, 0, 1), Row("NYSE", 0, 1, 0, 1), Row("NYSE", 2, 1, 0, 1)>>

\* how many rows of x carry the labels g = <<portfolio_me, portfolio_bm>>
CountIn(x, g) ==
  Cardinality({i \in 1..Len(x) : /\ x[i].portfolio_me = g[1]
                                 /\ x[i].portfolio_bm = g[2]})

CombinedGroups == (1..NPortfolios) \X (1..NPortfolios)

\* C17: the dependent sort is not the independent sort: on the correlated
\* cross-section there is a combined group (portfolio_me, portfolio_bm)
\* that holds a row in the dependent sort and a different number of rows in
\* the independent sort of the same rows.
C17_DependentDiffers ==
  (pc = "dependent" /\ data_for_sorts[FirstDate] = Correlated) =>
    \E g \in CombinedGroups :
      /\ CountIn(First, g) > 0
      /\ CountIn(First, g) # CountIn(IndependentSortOf(Correlated), g)

\* the second row is in the group (1, 5) of the dependent sort and in the
\* group (1, 3) of the independent sort
C17_Witness ==
  /\ pc = "dependent" /\ data_for_sorts[FirstDate] = Correlated
  /\ CountIn(First, <<1, 5>>) = 1
  /\ CountIn(IndependentSortOf(Correlated), <<1, 5>>) = 0
  /\ CountIn(IndependentSortOf(Correlated), <<1, 3>>) = 1

\* --------------------------------------- ff-factors.py: portfolios
\* the percentiles of lines 123 and 125, in tenths
SizePercentiles == <<0, 5, 10>>
BmPercentiles == <<0, 3, 7, 10>>

FirstSortingDate == "1960-07-01"
SecondSortingDate == "1961-07-01"

\* the outcome of a call under one pandas: the build that raises for bins
\* with a NaN (strict) or the one that does not
Outcome(outcomes, strict) ==
  CHOOSE o \in outcomes :
    Cardinality(outcomes) = 1 \/ (strict <=> o.raised # "none")

\* x.assign(portfolio_size=..., portfolio_bm=...) of one sorting date, and
\* the columns that .get([...]) keeps
PortfoliosOf(x, d, strict) ==
  LET size == Outcome(AssignPortfolioFF(x, "size", SizePercentiles), strict)
      bm == Outcome(AssignPortfolioFF(x, "bm", BmPercentiles), strict)
  IN IF size.raised # "none" \/ bm.raised # "none"
     THEN [raised |-> "ValueError", rows |-> << >>]
     ELSE [raised |-> "none",
           rows |-> [i \in 1..Len(x) |->
                       [permno |-> x[i].permno, sorting_date |-> d,
                        portfolio_size |-> size.assigned_portfolios[i],
                        portfolio_bm |-> bm.assigned_portfolios[i]]]]

\* lines 118-130: groupby("sorting_date").apply(assign portfolio_size,
\* portfolio_bm); an exception of one date leaves the script
PortfoliosFF ==
  /\ pc = "loaded"
  /\ sorting_variables # << >>
  /\ \E strict \in BOOLEAN :
       LET out == [d \in DOMAIN sorting_variables |->
                     PortfoliosOf(sorting_variables[d], d, strict)]
       IN IF \E d \in DOMAIN out : out[d].raised # "none"
          THEN /\ raised' = "ValueError"
               /\ portfolios' = << >>
               /\ pc' = "failed"
          ELSE /\ raised' = raised
               /\ portfolios' = [d \in DOMAIN out |-> out[d].rows]
               /\ pc' = "portfolios"
  /\ UNCHANGED <<data, sorting_variable, n_portfolios, percentiles, called,
                 breakpoints, assigned_portfolios, sorting_variables, merged,
                 data_for_sorts, sorted_data, categories, value_portfolios,
                 value_premium, tableVars, returnVars>>

\* Two dates of both scripts: the rows of the first date, and at the second
\* date the same firms with the same exchange and bm and with me either
\* unchanged or halved (firms of different size become firms of one size).
Transformations == {"same", "halved"}

Later(x, g) ==
  [i \in 1..Len(x) |->
     [x[i] EXCEPT !.me = IF g = "same" THEN @ ELSE @ \div 2]]

\* the rows of sorting_variables: size takes the place of me
SizeRows(x) ==
  [i \in 1..Len(x) |->
     [permno |-> i, exchange |-> x[i].exchange, size |-> x[i].me, bm |-> x[i].bm]]

InitPeriods ==
  /\ NoCall
  /\ merged = {}
  /\ \E x \in {y \in CrossSections(RowsMeBm) : InOrder(y)} :
     \E g \in Transformations :
       /\ data_for_sorts = (FirstDate :> x) @@ (SecondDate :> Later(x, g))
       /\ sorting_variables = (FirstSortingDate :> SizeRows(x))
                                @@ (SecondSortingDate :> SizeRows(Later(x, g)))
  /\ sorted_data = << >>
  /\ categories = NoColumns
  /\ value_portfolios = {}
  /\ value_premium = << >>
  /\ portfolios = << >>
  /\ NoTables
  /\ NoReturns
  /\ pc = "loaded"

NextPeriods == IndependentSort \/ PortfoliosFF

SpecPeriods == InitPeriods /\ [][NextPeriods]_vars

\* the label sequences that ff-factors.py assign_portfolio can return
LabelsFF(x, v, p) ==
  {o.assigned_portfolios :
     o \in {q \in AssignPortfolioFF(x, v, p) : q.raised = "none"}}

SameBm ==
  /\ Len(data_for_sorts[FirstDate]) = Len(data_for_sorts[SecondDate])
  /\ \A i \in 1..Len(data_for_sorts[FirstDate]) :
       /\ data_for_sorts[FirstDate][i].bm = data_for_sorts[SecondDate][i].bm
       /\ data_for_sorts[FirstDate][i].exchange
            = data_for_sorts[SecondDate][i].exchange

\* C19: in the independent sort of both scripts the label of bm does not
\* depend on the values of me (size): two cross-sections with the same
\* exchange and bm of every firm give every firm the same portfolio_bm,
\* whatever me is.
C19_VariablesIndependent ==
  /\ (pc = "independent" /\ SameBm) =>
       \A i \in 1..Len(First) : First[i].portfolio_bm = Second[i].portfolio_bm
  /\ (pc = "portfolios" /\ SameBm) =>
       \A i \in 1..Len(portfolios[FirstSortingDate]) :
         portfolios[FirstSortingDate][i].portfolio_bm
           = portfolios[SecondSortingDate][i].portfolio_bm

\* a firm whose label of me changes with me while its label of bm stays,
\* in a cross-section with two labels of bm
C19_Witness ==
  /\ pc = "independent" /\ SameBm
  /\ \E i, j \in 1..Len(First) :
       /\ First[i].me # Second[i].me
       /\ First[i].portfolio_me # NA /\ Second[i].portfolio_me # NA
       /\ First[i].portfolio_me # Second[i].portfolio_me
       /\ First[i].portfolio_bm # NA
       /\ First[j].portfolio_bm # NA
       /\ First[i].portfolio_bm # First[j].portfolio_bm

MeLag == 1          \* x["date"] + pd.DateOffset(months=1)
BmLag == 6          \* x["date"] + pd.DateOffset(months=6)

SourceMonths == {1, 2, 6, 7, 8}
BookEquities == {12, 24}

MktCap(permno, date) ==
  IF permno = 1
  THEN (1 :> 1 @@ 2 :> 2 @@ 6 :> 3 @@ 7 :> 4 @@ 8 :> 6)[date]
  ELSE (1 :> 2 @@ 2 :> 3 @@ 6 :> 4 @@ 7 :> 6 @@ 8 :> 12)[date]

CrspRow(permno, gvkey, date) ==
  [permno |-> permno, gvkey |-> gvkey, date |-> date, ret_excess |-> 0,
   mktcap |-> MktCap(permno, date), mktcap_lag |-> 1, exchange |-> "NYSE"]

\* lines 41-45: me, the market cap with the date of the month after
\* (not: with its own date)
MeUnlagged(crsp) ==
  {[permno |-> c.permno, sorting_date |-> c.date, me |-> c.mktcap] : c \in crsp}

MeOf(crsp) ==
  {[permno |-> c.permno, sorting_date |-> c.date + MeLag, me |-> c.mktcap] :
     c \in crsp}

\* lines 48-54: book_equity merged with crsp_monthly on gvkey and date
\* (inner), bm = be / mktcap, sorting_date and comp_date six months later
BmOf(book, crsp) ==
  {[permno |-> q[2].permno, gvkey |-> q[2].gvkey,
    sorting_date |-> q[1].date + BmLag, comp_date |-> q[1].date + BmLag,
    bm |-> q[1].be \div q[2].mktcap] :
     q \in {x \in book \X crsp :
              x[1].gvkey = x[2].gvkey /\ x[1].date = x[2].date}}

\* the rows of the right table that a left merge gives to a row: those
\* that match or, without a match, one row of missing values
OrMissing(matches, missing) == IF matches = {} THEN {missing} ELSE matches

\* lines 57-68: crsp_monthly, left merged with bm on permno, gvkey and
\* date = sorting_date, then with me on permno and date = sorting_date
MergedOf(crsp, bm, me) ==
  UNION {
    {[permno |-> c.permno, gvkey |-> c.gvkey, date |-> c.date,
      ret_excess |-> c.ret_excess, mktcap_lag |-> c.mktcap_lag,
      me |-> y.me, bm |-> x.bm, exchange |-> c.exchange,
      comp_date |-> x.comp_date] :
       x \in OrMissing({b \in bm : b.permno = c.permno /\ b.gvkey = c.gvkey
                                   /\ b.sorting_date = c.date},
                       [bm |-> Missing, comp_date |-> Missing]),
       y \in OrMissing({m \in me : m.permno = c.permno
                                   /\ m.sorting_date = c.date},
                       [me |-> Missing])} :
    c \in crsp}

MergeTables ==
  /\ pc = "read"
  /\ merged' = MergedOf(crsp_monthly, BmOf(book_equity, crsp_monthly),
                        MeOf(crsp_monthly))
  /\ pc' = "merged"
  /\ UNCHANGED <<callVars, factorVars, data_for_sorts, sorted_data, categories,
                 value_portfolios, value_premium>>

\* The tables of two permnos: the first with the gvkey 1, the second with
\* the gvkey 1 (a second share class) or 2 (another firm).
InitSource ==
  /\ NoCall
  /\ \E D \in SUBSET SourceMonths : \E E \in SUBSET {1, 6, 7} :
     \E g \in {1, 2} :
       crsp_monthly = {CrspRow(1, 1, d) : d \in D}
                        \cup {CrspRow(2, g, d) : d \in E}
  /\ \E K \in SUBSET {<<1, 1>>, <<1, 2>>, <<2, 1>>} :
     \E f \in [K -> BookEquities] :
       book_equity = {[gvkey |-> k[1], date |-> k[2], be |-> f[k]] : k \in K}
  /\ compustat = {}
  /\ NoWrds
  /\ NoReturns
  /\ merged = {}
  /\ data_for_sorts = << >>
  /\ sorted_data = << >>
  /\ categories = NoColumns
  /\ value_portfolios = {}
  /\ value_premium = << >>
  /\ sorting_variables = << >>
  /\ portfolios = << >>
  /\ pc = "read"

NextSource == MergeTables \/ DataForSorts

SpecSource == InitSource /\ [][NextSource]_vars

\* C21: no look-ahead in data_for_sorts: the me of a row of date d is the
\* market cap of its permno in the month d - 1, and its bm is be / mktcap
\* of its permno and gvkey in a month m with m + 6 <= d.
C21_NoLookAhead ==
  (pc = "loaded" /\ crsp_monthly # {}) =>
    \A r \in Loaded :
      /\ \E c \in crsp_monthly : c.permno = r.permno /\ c.date = r.date - 1
      /\ \A c \in crsp_monthly :
           (c.permno = r.permno /\ c.date = r.date - 1) => r.me = c.mktcap
      /\ \E b \in book_equity : \E c \in crsp_monthly :
           /\ c.permno = r.permno /\ c.gvkey = r.gvkey /\ b.gvkey = r.gvkey
           /\ b.date = c.date /\ c.date + 6 <= r.date
           /\ r.bm * c.mktcap = b.be

\* a row with a bm carried forward, while the other permno has a market cap
\* of the month before and a book equity of its own
C21_Witness ==
  /\ pc = "loaded"
  /\ \E r \in Loaded :
       /\ ~\E b \in book_equity : b.gvkey = r.gvkey /\ b.date + 6 = r.date
       /\ \E c \in crsp_monthly : c.permno # r.permno /\ c.date = r.date - 1
       /\ \E b \in book_equity : b.gvkey # r.gvkey


\* ------------------------ ff-factors.py lines 50-86 and 132-145: C22
\* A date is the first day of a month: the month `month` of the year
\* `year` is 12 * year + month, the years counted from 0.
Year(date) == (date - 1) \div 12
Month(date) == ((date - 1) % 12) + 1
July(year) == 12 * year + 7

\* lines 139-141: str(x.year-1)+"0701" if x.month <= 6 else str(x.year)+"0701"
\* (not: the July of the year of the date, whatever the month)
SortingDateOfYear(date) == July(Year(date))

SortingDateOf(date) ==
  IF Month(date) <= 6 THEN July(Year(date) - 1) ELSE July(Year(date))

\* the market cap of a permno in a month tells the permno and the month;
\* those of December divide every book equity
MktCapFF(permno, date) ==
  IF permno = 1
  THEN (12 :> 2 @@ 18 :> 5 @@ 19 :> 10 @@ 24 :> 3 @@ 30 :> 7 @@ 31 :> 13)[date]
  ELSE (12 :> 4 @@ 18 :> 9 @@ 19 :> 11 @@ 24 :> 6 @@ 30 :> 8 @@ 31 :> 14)[date]

\* a row of crsp_monthly; the return of a row is the number of its permno
CrspRowFF(permno, gvkey, exchange, date) ==
  [permno |-> permno, gvkey |-> gvkey, date |-> date, ret_excess |-> permno,
   mktcap |-> MktCapFF(permno, date), mktcap_lag |-> 1, exchange |-> exchange]

\* lines 52-57: size, the market cap of June with the date of July
SizeOf(crsp) ==
  {[permno |-> c.permno, exchange |-> c.exchange, sorting_date |-> c.date + 1,
    size |-> c.mktcap] : c \in {q \in crsp : Month(q.date) = 6}}

\* lines 60-65: market_equity, the market cap of December with the date of
\* the July after
MarketEquityOf(crsp) ==
  {[permno |-> c.permno, gvkey |-> c.gvkey, sorting_date |-> c.date + 7,
    me |-> c.mktcap] : c \in {q \in crsp : Month(q.date) = 12}}

\* lines 68-79: book_to_market, the book equity with the date of the July
\* of the year after its datadate, merged with market_equity on gvkey and
\* sorting_date (inner), bm = be / me
BookToMarketOf(comp, market_equity) ==
  {[permno |-> q[2].permno, sorting_date |-> q[2].sorting_date,
    me |-> q[2].me, bm |-> q[1].be \div q[2].me] :
     q \in {x \in comp \X market_equity :
              /\ x[1].gvkey = x[2].gvkey
              /\ July(Year(x[1].datadate) + 1) = x[2].sorting_date}}

\* lines 82-84: size merged with book_to_market on permno and sorting_date
\* (inner), and .dropna()
Joined(size, book_to_market) ==
  {r \in {[permno |-> q[1].permno, exchange |-> q[1].exchange,
           sorting_date |-> q[1].sorting_date, size |-> q[1].size,
           me |-> q[2].me, bm |-> q[2].bm] :
            q \in {x \in size \X book_to_market :
                     /\ x[1].permno = x[2].permno
                     /\ x[1].sorting_date = x[2].sorting_date}} :
     r.size # Missing /\ r.me # Missing /\ r.bm # Missing}

\* line 85: .drop_duplicates(subset=["permno", "sorting_date"]) keeps the
\* first row of every pair; the order of the rows is that of the tables,
\* so the row kept is any row of the pair
\* (not: every row is kept)
KeepAll(rows) == {rows}

DropDuplicatesBy(rows) ==
  LET keys == {<<r.permno, r.sorting_date>> : r \in rows}
      firsts == {f \in [keys -> rows] :
                   \A k \in keys : f[k].permno = k[1] /\ f[k].sorting_date = k[2]}
  IN {{f[k] : k \in keys} : f \in firsts}

\* lines 52-86
SortingVariablesFF ==
  /\ pc = "read"
  /\ \E kept \in DropDuplicatesBy(
         Joined(SizeOf(crsp_monthly),
                BookToMarketOf(compustat, MarketEquityOf(crsp_monthly)))) :
       sorting_variables' =
         [d \in {r.sorting_date : r \in kept} |->
            ByPermno({r \in kept : r.sorting_date = d})]
  /\ pc' = "loaded"
  /\ UNCHANGED <<callVars, merged, data_for_sorts, sorted_data, categories,
                 value_portfolios, value_premium, portfolios, tableVars,
                 returnVars>>

\* the rows of a table that is kept by sorting date
RowsOfDates(table) ==
  UNION {{table[d][i] : i \in 1..Len(table[d])} : d \in DOMAIN table}

\* lines 135-145: crsp_monthly with the sorting_date of every date, merged
\* with portfolios on permno and sorting_date (inner)
MergeReturns ==
  /\ pc = "portfolios"
  /\ portfolios_monthly' =
       {[permno |-> q[1].permno, gvkey |-> q[1].gvkey, date |-> q[1].date,
         ret_excess |-> q[1].ret_excess, mktcap_lag |-> q[1].mktcap_lag,
         sorting_date |-> q[2].sorting_date,
         portfolio_size |-> q[2].portfolio_size,
         portfolio_bm |-> q[2].portfolio_bm] :
          q \in {x \in crsp_monthly \X RowsOfDates(portfolios) :
                   /\ x[1].permno = x[2].permno
                   /\ SortingDateOf(x[1].date) = x[2].sorting_date}}
  /\ pc' = "assigned"
  /\ UNCHANGED <<callVars, merged, data_for_sorts, sorted_data, categories,
                 value_portfolios, value_premium, sorting_variables, portfolios,
                 tableVars, factors_replicated>>

\* The tables of two permnos.  The first is listed at the NYSE and linked
\* to the gvkey 1, or to the gvkeys 1 and 2 at once; the second is linked
\* to the gvkey 2.  compustat has one row at most for a gvkey and a year
\* (wrds-etc-data.py keeps the last report of the year).
InitFF ==
  /\ NoCall
  /\ \E D \in SUBSET {19, 24, 30, 31} : \E dual \in BOOLEAN :
     \E E \in {{}, {12, 18}, {12, 18, 24, 30}} : \E G \in SUBSET {19} :
     \E e \in Exchanges :
       crsp_monthly =
         {CrspRowFF(1, 1, "NYSE", d) : d \in D \cup {12, 18}}
           \cup (IF dual
                 THEN {CrspRowFF(1, 2, "NYSE", d) : d \in D \cup {12, 18}}
                 ELSE {})
           \cup {CrspRowFF(2, 2, e, d) : d \in E \cup G}
  /\ \E a \in {{}} \cup {{[gvkey |-> 1, datadate |-> d, be |-> b]} :
                          d \in {3, 12}, b \in BookEquities} :
     \E b \in {{}, {[gvkey |-> 1, datadate |-> 24, be |-> 12]}} :
     \E c \in {{}} \cup {{[gvkey |-> 2, datadate |-> 12, be |-> x]} :
                          x \in BookEquities} :
     \E d \in {{}, {[gvkey |-> 2, datadate |-> 24, be |-> 12]}} :
       compustat = a \cup b \cup c \cup d
  /\ book_equity = {}
  /\ NoWrds
  /\ merged = {}
  /\ data_for_sorts = << >>
  /\ sorted_data = << >>
  /\ categories = NoColumns
  /\ value_portfolios = {}
  /\ value_premium = << >>
  /\ sorting_variables = << >>
  /\ portfolios = << >>
  /\ NoReturns
  /\ pc = "read"

\* C22: a return of the date d carries the labels of the portfolio formed
\* on the 1st of July of the year of d from July on, and of the year before
\* until June, so that a portfolio is held for the twelve months from July
\* to June; and the row of a permno formed on the 1st of July of the year y
\* has the market cap of June of y as size, that of December of y - 1 as
\* me, and the book equity of a datadate of the year y - 1.
C22_FormationTiming ==
  /\ pc = "assigned" =>
       \A r \in portfolios_monthly :
         /\ Month(r.sorting_date) = 7
         /\ Year(r.sorting_date) =
              IF Month(r.date) >= 7 THEN Year(r.date) ELSE Year(r.date) - 1
         /\ r.sorting_date <= r.date /\ r.date <= r.sorting_date + 11
         /\ \E p \in RowsOfDates(portfolios) :
              /\ p.permno = r.permno /\ p.sorting_date = r.sorting_date
              /\ p.portfolio_size = r.portfolio_size
              /\ p.portfolio_bm = r.portfolio_bm
  /\ pc \in {"loaded", "portfolios", "assigned"} =>
       \A v \in RowsOfDates(sorting_variables) :
         LET y == Year(v.sorting_date)
         IN /\ Month(v.sorting_date) = 7
            /\ \E c \in crsp_monthly :
                 /\ c.permno = v.permno /\ c.date = 12 * y + 6
                 /\ v.size = c.mktcap
            /\ \E c \in crsp_monthly : \E k \in compustat :
                 /\ c.permno = v.permno /\ c.date = 12 * (y - 1) + 12
                 /\ v.me = c.mktcap
                 /\ k.gvkey = c.gvkey /\ Year(k.datadate) = y - 1
                 /\ v.bm * c.mktcap = k.be

\* a permno with returns in July and in the June after under the labels of
\* one July, and with a return in the July after
C22_Witness ==
  /\ pc = "assigned"
  /\ \E r, q, o \in portfolios_monthly :
       /\ r.permno = q.permno /\ q.permno = o.permno
       /\ r.date = July(1) /\ q.date = July(1) + 11 /\ o.date = July(2)
       /\ r.sorting_date = q.sorting_date /\ o.sorting_date # q.sorting_date


\* ------------------- ff-factors.py lines 153-174 and 311-401: C23
\* The labels of the sorts: the categories of portfolio_size are 1, 2 and
\* those of the other label columns 1, 2, 3.
SizeLabels == {1, 2}
OtherLabels == {1, 2, 3}

\* groupby(["portfolio_size", column, "date"]).apply(np.average(ret_excess,
\* weights=mktcap_lag)).reset_index(): a row for every combination of the
\* categories and the dates, with the return NaN for a combination without
\* a row of portfolios
PortfolioTable(monthly, column) ==
  {[date |-> d, portfolio_size |-> z, column |-> column, label |-> l,
    ret |-> LET rows == {r \in monthly : /\ r.date = d
                                         /\ r.portfolio_size = z
                                         /\ r[column] = l}
            IN IF rows = {} THEN NaN ELSE NpAverage(ByPermno(rows))] :
     d \in {r.date : r \in monthly}, z \in SizeLabels, l \in OtherLabels}

\* x["ret"][x["portfolio_size"] == long].mean()
\*   - x["ret"][x["portfolio_size"] == short].mean() of the rows of a date
SizeSpread(table, d, long, short) ==
  Minus(Mean({r \in table : r.date = d /\ r.portfolio_size = long}),
        Mean({r \in table : r.date = d /\ r.portfolio_size = short}))

\* x["ret"][x[column] == long].mean() - x["ret"][x[column] == short].mean()
\* (not: the short side minus the long side)
LabelSpreadReversed(table, d, long, short) ==
  Minus(Mean({r \in table : r.date = d /\ r.label = short}),
        Mean({r \in table : r.date = d /\ r.label = long}))

LabelSpread(table, d, long, short) ==
  Minus(Mean({r \in table : r.date = d /\ r.label = long}),
        Mean({r \in table : r.date = d /\ r.label = short}))

\* lines 153-174: the six portfolios of size and bm, smb_replicated and
\* hml_replicated of every date
FactorsReplicated ==
  /\ pc = "assigned"
  /\ LET table == PortfolioTable(portfolios_monthly, "portfolio_bm")
     IN factors_replicated' =
          [d \in {r.date : r \in table} |->
             [smb_replicated |-> SizeSpread(table, d, 1, 2),
              hml_replicated |-> LabelSpread(table, d, 3, 1)]]
  /\ pc' = "factors"
  /\ UNCHANGED <<callVars, merged, data_for_sorts, sorted_data, categories,
                 value_portfolios, value_premium, sorting_variables, portfolios,
                 tableVars, portfolios_monthly>>

\* lines 311-401: portfolios_value, portfolios_profitability and
\* portfolios_investment, the factor of each, the size factor of the three
\* tables concatenated, and the outer merges on date
FactorsReplicated5 ==
  /\ pc = "assigned"
  /\ LET portfolios_value == PortfolioTable(portfolios_monthly, "portfolio_bm")
         portfolios_profitability ==
           PortfolioTable(portfolios_monthly, "portfolio_op")
         portfolios_investment ==
           PortfolioTable(portfolios_monthly, "portfolio_inv")
         concat == portfolios_value \cup portfolios_profitability
                     \cup portfolios_investment
     IN factors_replicated' =
          [d \in {r.date : r \in concat} |->
             [smb_replicated |-> SizeSpread(concat, d, 1, 2),
              hml_replicated |-> LabelSpread(portfolios_value, d, 3, 1),
              rmw_replicated |-> LabelSpread(portfolios_profitability, d, 3, 1),
              cma_replicated |-> LabelSpread(portfolios_investment, d, 1, 3)]]
  /\ pc' = "factors5"
  /\ UNCHANGED <<callVars, merged, data_for_sorts, sorted_data, categories,
                 value_portfolios, value_premium, sorting_variables, portfolios,
                 tableVars, portfolios_monthly>>

\* ff-factors.py from the tables it reads to the three-factor returns
NextFF ==
  SortingVariablesFF \/ PortfoliosFF \/ MergeReturns \/ FactorsReplicated

SpecFF == InitFF /\ [][NextFF]_vars

\* The returns of up to three permnos in one month under labels of the
\* four sorts.
LabelledRow(permno, labels, ret, weight) ==
  [permno |-> permno, date |-> July(1), ret_excess |-> ret,
   mktcap_lag |-> weight, portfolio_size |-> labels[1],
   portfolio_bm |-> labels[2], portfolio_op |-> labels[3],
   portfolio_inv |-> labels[4]]

LabelChoices ==
  {<<z, b, o[1], o[2]>> :
     z \in SizeLabels, b \in OtherLabels, o \in {<<1, 1>>, <<3, 3>>, <<1, 3>>}}

FactorReturns == {0, 6}

InitFactors ==
  /\ NoCall
  /\ \E a \in LabelChoices : \E ra \in FactorReturns : \E w \in {1, 2} :
     \E b \in LabelChoices : \E rb \in FactorReturns :
     \E c \in {{}} \cup {{LabelledRow(3, <<z, 3, 3, 3>>, 12, 1)} : z \in SizeLabels} :
       portfolios_monthly =
         {LabelledRow(1, a, ra, w), LabelledRow(2, b, rb, 1)} \cup c
  /\ factors_replicated = << >>
  /\ NoTables
  /\ merged = {}
  /\ data_for_sorts = << >>
  /\ sorted_data = << >>
  /\ categories = NoColumns
  /\ value_portfolios = {}
  /\ value_premium = << >>
  /\ sorting_variables = << >>
  /\ portfolios = << >>
  /\ pc = "assigned"

NextFactors == FactorsReplicated \/ FactorsReplicated5

SpecFactors == InitFactors /\ [][NextFactors]_vars

\* The stocks of the portfolio k = <<column, size label, other label>> on
\* the date d, and the portfolios of a side that hold a stock.
StocksOf(d, k) ==
  {r \in portfolios_monthly : /\ r.date = d
                              /\ r.portfolio_size = k[2]
                              /\ r[k[1]] = k[3]}

SideOf(d, columns, bySize, label) ==
  {k \in columns \X SizeLabels \X OtherLabels :
     /\ IF bySize THEN k[2] = label ELSE k[3] = label
     /\ StocksOf(d, k) # {}}

\* Twelve times the sum of the value-weighted returns of the portfolios of
\* a side: the sum of the weights of a portfolio is one of 1..4.
RECURSIVE SumTwelfths(_, _)
SumTwelfths(d, side) ==
  IF side = {} THEN 0
  ELSE LET k == CHOOSE k \in side : TRUE
           rows == ByPermno(StocksOf(d, k))
       IN SumRetWeight(rows) * (12 \div SumWeight(rows))
            + SumTwelfths(d, side \ {k})

\* f is the equally weighted mean of the returns of the portfolios of the
\* long side minus that of the short side, undefined when a side is empty
IsSpread(f, d, columns, bySize, long, short) ==
  LET L == SideOf(d, columns, bySize, long)
      S == SideOf(d, columns, bySize, short)
      l == Cardinality(L)
      z == Cardinality(S)
  IN IF L = {} \/ S = {} THEN f = NaN
     ELSE /\ f.kind = "fin"
          /\ f.num * 12 * l * z
               = f.den * (SumTwelfths(d, L) * z - SumTwelfths(d, S) * l)

\* C23: every replicated factor of a date is the equally weighted mean of
\* the returns of the portfolios on its long side minus that of the
\* portfolios on its short side: SMB is size label 1 minus size label 2
\* (over the portfolios of the one sort of the three-factor model, of the
\* three sorts of the five-factor model), HML bm 3 minus bm 1, RMW op 3
\* minus op 1, CMA inv 1 minus inv 3.
C23_FactorDefinitions ==
  /\ pc \in {"factors", "factors5"} =>
       DOMAIN factors_replicated = {r.date : r \in portfolios_monthly}
  /\ pc = "factors" =>
       \A d \in DOMAIN factors_replicated :
         /\ IsSpread(factors_replicated[d].smb_replicated, d,
                     {"portfolio_bm"}, TRUE, 1, 2)
         /\ IsSpread(factors_replicated[d].hml_replicated, d,
                     {"portfolio_bm"}, FALSE, 3, 1)
  /\ pc = "factors5" =>
       \A d \in DOMAIN factors_replicated :
         /\ IsSpread(factors_replicated[d].smb_replicated, d,
                     {"portfolio_bm", "portfolio_op", "portfolio_inv"},
                     TRUE, 1, 2)
         /\ IsSpread(factors_replicated[d].hml_replicated, d,
                     {"portfolio_bm"}, FALSE, 3, 1)
         /\ IsSpread(factors_replicated[d].rmw_replicated, d,
                     {"portfolio_op"}, FALSE, 3, 1)
         /\ IsSpread(factors_replicated[d].cma_replicated, d,
                     {"portfolio_inv"}, FALSE, 1, 3)

\* The five factors of a month are all defined and none is zero, and a
\* portfolio of the month holds two stocks of different weight.
C23_Witness ==
  /\ pc = "factors5"
  /\ \A d \in DOMAIN factors_replicated :
       \A c \in {"smb_replicated", "hml_replicated", "rmw_replicated",
                 "cma_replicated"} :
         /\ factors_replicated[d][c].kind = "fin"
         /\ factors_replicated[d][c].num # 0
  /\ \E r, q \in portfolios_monthly :
       /\ r.mktcap_lag # q.mktcap_lag
       /\ r.ret_excess # q.ret_excess
       /\ r.portfolio_size = q.portfolio_size
       /\ r.portfolio_inv = q.portfolio_inv

\* ------------------- wrds-etc-data.py lines 307-388: C24
\* batch_size; the script uses 500, the model two permnos a batch
BatchSize == 2

\* batches = np.ceil(len(permnos) / batch_size)
Batches(permnos) == (Len(permnos) + BatchSize - 1) \div BatchSize

\* permnos[((j-1)*batch_size):(min(j*batch_size, len(permnos)))]
PermnoBatch(permnos, b) ==
  SubSeq(permnos, (b - 1) * BatchSize + 1, Min({b * BatchSize, Len(permnos)}))

\* the rows of a query, by permno and date
RECURSIVE ByPermnoDate(_)
ByPermnoDate(rows) ==
  IF rows = {} THEN << >>
  ELSE LET r == CHOOSE r \in rows :
                  \A q \in rows : \/ r.permno < q.permno
                                  \/ r.permno = q.permno /\ r.date <= q.date
       IN <<r>> \o ByPermnoDate(rows \ {r})

\* lines 361-369: the left merge with the rf of the date (one percent on
\* every date here), ret_excess = (ret - rf).clip(lower=-1) in percent, and
\* the three columns kept
ExcessReturns(sub) ==
  [i \in 1..Len(sub) |->
     [permno |-> sub[i].permno, date |-> sub[i].date,
      ret_excess |-> Max({sub[i].ret - 1, -100})]]

\* lines 335-358: the rows of dsf of the permnos of batch b, the rows with
\* a missing value dropped
CrspDailySub(b) ==
  ByPermnoDate({r \in wrds.dsf :
                  /\ \E i \in DOMAIN PermnoBatch(wrds.permnos, b) :
                       PermnoBatch(wrds.permnos, b)[i] = r.permno
                  /\ r.ret # Missing})

\* DataFrame.to_sql(name, con, if_exists)
ToSql(table, rows, if_exists) ==
  IF if_exists = "replace" THEN rows ELSE table \o rows

\* lines 320-388: one pass of the loop over the batches
DailyBatch ==
  /\ pc = "daily"
  /\ j_batch <= Batches(wrds.permnos)
  /\ LET crsp_daily_sub == CrspDailySub(j_batch)
     IN crsp_daily' =
          IF crsp_daily_sub # << >>
          THEN ToSql(crsp_daily, ExcessReturns(crsp_daily_sub),
                     IF j_batch = 1 THEN "replace" ELSE "append")
          ELSE crsp_daily
  /\ j_batch' = j_batch + 1
  /\ UNCHANGED <<callVars, merged, data_for_sorts, sorted_data, categories,
                 value_portfolios, value_premium, sorting_variables, portfolios,
                 crsp_monthly, book_equity, compustat, returnVars, wrds, pc>>

\* The daily rows WRDS can hold of a permno, and the table crsp_daily an
\* earlier run has left.
DailyChoices(permno) ==
  <<{},
    {[permno |-> permno, date |-> 1, ret |-> 5]},
    {[permno |-> permno, date |-> 1, ret |-> Missing]},
    {[permno |-> permno, date |-> 1, ret |-> -150],
     [permno |-> permno, date |-> 2, ret |-> Missing]}>>

EarlierRun == <<[permno |-> 9, date |-> 1, ret_excess |-> 0]>>

MaxPermnos == 4

InitDaily ==
  /\ NoCall
  /\ merged = {}
  /\ data_for_sorts = << >>
  /\ sorted_data = << >>
  /\ categories = NoColumns
  /\ value_portfolios = {}
  /\ value_premium = << >>
  /\ NoReturns
  /\ sorting_variables = << >>
  /\ portfolios = << >>
  /\ crsp_monthly = {}
  /\ book_equity = {}
  /\ compustat = {}
  /\ \E n \in 1..MaxPermnos :
     \E c \in [1..n -> 1..4] :
       wrds = [permnos |-> [i \in 1..n |-> i],
               dsf |-> UNION {DailyChoices(i)[c[i]] : i \in 1..n}]
  /\ crsp_daily \in {<< >>, EarlierRun}
  /\ j_batch = 1
  /\ pc = "daily"

NextDaily == DailyBatch

SpecDaily == InitDaily /\ [][NextDaily]_vars

\* The loop over the batches has finished.
LoopFinished == pc = "daily" /\ j_batch > Batches(wrds.permnos)

\* C24: after the batch loop has finished, the crsp_daily table holds
\* exactly the rows produced by the batches of this run, whatever the table
\* held before the run and whichever batches returned no rows.
C24_TableHoldsThisRun ==
  LoopFinished =>
    crsp_daily = ExcessReturns(ByPermnoDate({r \in wrds.dsf : r.ret # Missing}))

\* ------------------- wrds-etc-data.py lines 56-161: C25
\* shrout * altprc of a row of msf, NaN when one of them is missing; the
\* model counts mktcap in thousands of dollars instead of millions
MktcapRaw(r) ==
  IF r.shrout = Missing \/ r.altprc = Missing THEN Missing
  ELSE r.shrout * r.altprc

\* lines 68-71: mktcap, a zero replaced by NaN
MktcapOf(r) == IF MktcapRaw(r) = 0 THEN Missing ELSE MktcapRaw(r)

\* lines 75-86: the mktcap of the rows of the permno one month earlier, NaN
\* without such a row (left merge on permno and date)
MktcapLagOf(msf, r) ==
  OrMissing({MktcapOf(q) : q \in {q \in msf : /\ q.permno = r.permno
                                              /\ q.date + 1 = r.date}},
            Missing)

\* lines 147-152: ret - rf clipped at -1, in percent; rf is one percent in
\* every month of factors_ff3_monthly, and the last month of msf is not in
\* that table yet
LastMonth == 4

RetExcessOf(r) ==
  IF r.ret = Missing \/ r.date = LastMonth THEN Missing
  ELSE Max({r.ret - 1, -100})

\* lines 56-161: crsp_monthly as it is stored, the rows with a missing
\* ret_excess, mktcap or mktcap_lag dropped
CrspMonthly ==
  /\ pc = "monthly"
  /\ crsp_monthly' =
       {t \in UNION {{[permno |-> r.permno, date |-> r.date,
                        ret_excess |-> RetExcessOf(r), mktcap |-> MktcapOf(r),
                        mktcap_lag |-> l] : l \in MktcapLagOf(wrds.msf, r)} :
                       r \in wrds.msf} :
          /\ t.ret_excess # Missing
          /\ t.mktcap # Missing
          /\ t.mktcap_lag # Missing}
  /\ pc' = "stored"
  /\ UNCHANGED <<callVars, merged, data_for_sorts, sorted_data, categories,
                 value_portfolios, value_premium, sorting_variables, portfolios,
                 book_equity, compustat, returnVars, wrdsVars>>

\* The rows of msf of two permnos: a row a month or none, shrout and the
\* price zero, positive or missing, the return given or missing.
MsfChoices(permno, date) ==
  {{}} \cup
  {{[permno |-> permno, date |-> date, ret |-> ret, shrout |-> z[1],
     altprc |-> z[2]]} :
     ret \in {5, Missing},
     z \in {<<0, 3>>, <<2, 0>>, <<2, 3>>, <<1, 3>>, <<Missing, 3>>}}

InitMonthly ==
  /\ NoCall
  /\ merged = {}
  /\ data_for_sorts = << >>
  /\ sorted_data = << >>
  /\ categories = NoColumns
  /\ value_portfolios = {}
  /\ value_premium = << >>
  /\ sorting_variables = << >>
  /\ portfolios = << >>
  /\ crsp_monthly = {}
  /\ book_equity = {}
  /\ compustat = {}
  /\ NoReturns
  /\ crsp_daily = << >>
  /\ j_batch = 1
  /\ \E a \in MsfChoices(1, 1) : \E b \in MsfChoices(1, 2) :
     \E c \in MsfChoices(1, 3) :
     \E d \in {{}, {[permno |-> 1, date |-> LastMonth, ret |-> 5, shrout |-> 1,
                     altprc |-> 3]}} :
     \E e \in SUBSET {[permno |-> 2, date |-> m, ret |-> -150, shrout |-> 2,
                       altprc |-> m] : m \in {2, 3}} :
       wrds = [msf |-> a \cup b \cup c \cup d \cup e]
  /\ pc = "monthly"

NextMonthly == CrspMonthly

SpecMonthly == InitMonthly /\ [][NextMonthly]_vars

RECURSIVE SumMktcapLag(_)
SumMktcapLag(rows) ==
  IF rows = {} THEN 0
  ELSE LET r == CHOOSE r \in rows : TRUE
       IN r.mktcap_lag + SumMktcapLag(rows \ {r})

\* C25: in the stored crsp_monthly every row has a defined, non-zero mktcap
\* and a defined, non-zero mktcap_lag, the mktcap_lag of a permno at a date
\* is the mktcap of the same permno one month earlier, and the sum of the
\* weights of any non-empty set of rows of a date is not zero.
C25_WeightsNotDegenerate ==
  pc = "stored" =>
    /\ \A r \in crsp_monthly :
         /\ r.mktcap # Missing /\ r.mktcap # 0
         /\ r.mktcap_lag # Missing /\ r.mktcap_lag # 0
         /\ \E q \in wrds.msf : /\ q.permno = r.permno
                                /\ q.date = r.date - 1
                                /\ q.shrout # Missing
                                /\ r.mktcap_lag = q.shrout * q.altprc
    /\ \A d \in {r.date : r \in crsp_monthly} :
         \A S \in SUBSET {r \in crsp_monthly : r.date = d} :
           S # {} => SumMktcapLag(S) # 0

\* Rows were stored, a row of msf with a zero mktcap was dropped and so was
\* the row of the month after it.
C25_Witness ==
  /\ pc = "stored"
  /\ \E r, q \in crsp_monthly : r.date = q.date /\ r.permno # q.permno
  /\ \E r, q \in wrds.msf :
       /\ r.permno = q.permno /\ q.date = r.date + 1
       /\ r.shrout = 0 /\ r.ret # Missing
       /\ q.shrout = 2 /\ q.altprc = 3 /\ q.ret # Missing
       /\ \A t \in crsp_monthly :
            t.permno = r.permno => t.date \notin {r.date, q.date}

\* ------- bivariate-sorts.py lines 87-111, ff-factors.py lines 93-115: C26
\* the percentiles [0, 1/n, ..., 1] in tenths, for the n that divide ten
EvenTenths(n) == [k \in 1..(n + 1) |-> (k - 1) * (10 \div n)]

EvenCounts == {1, 2, NPortfolios}

\* a call of ff-factors.py assign_portfolio with the evenly spaced
\* percentiles of n_portfolios
CallAssignPortfolioEven ==
  /\ called = "none"
  /\ percentiles' = EvenTenths(n_portfolios)
  /\ \E o \in AssignPortfolioFF(data, sorting_variable,
                                EvenTenths(n_portfolios)) :
       /\ breakpoints' = o.breakpoints
       /\ assigned_portfolios' = o.assigned_portfolios
       /\ raised' = o.raised
  /\ called' = "ff"
  /\ UNCHANGED <<data, sorting_variable, n_portfolios, scriptVars>>

\* The reference values 0 and 5, whose quantiles at the fifths are 0..5,
\* and the value 3 outside the reference universe.
FifthsData(v) ==
  <<Row("NYSE", IF v = "me" THEN 0 ELSE 0, IF v = "bm" THEN 0 ELSE 0, 0, 1),
    Row("NASDAQ", IF v = "me" THEN 3 ELSE 0, IF v = "bm" THEN 3 ELSE 0, 0, 1),
    Row("NYSE", IF v = "me" THEN 5 ELSE 0, IF v = "bm" THEN 5 ELSE 0, 0, 1)>>

InitAgree ==
  /\ sorting_variable \in SortingVariables
  /\ data \in CrossSections(RowsOf(sorting_variable))
               \cup {ExampleData(sorting_variable), FifthsData(sorting_variable)}
  /\ n_portfolios \in EvenCounts
  /\ percentiles = << >>
  /\ called = "none"
  /\ breakpoints = << >>
  /\ assigned_portfolios = << >>
  /\ raised = "none"
  /\ NoScript

NextAgree == CallAssignPortfolio \/ CallAssignPortfolioEven

SpecAgree == InitAgree /\ [][NextAgree]_vars

\* The n+1 quantiles of the reference values at 0, 1/n, ..., 1.
EvenQuantiles == QuantileSeq(Reference, Tenths(EvenTenths(n_portfolios)))

\* C26: for a cross-section whose n+1 NYSE quantiles at the probabilities
\* 0, 1/n, ..., 1 are pairwise distinct, assign_portfolio(data, ['NYSE'],
\* var, n) of bivariate-sorts.py and assign_portfolio(data, var,
\* [0, 1/n, ..., 1]) of ff-factors.py return the same label for every
\* observation.
C26_ImplementationsAgree ==
  (/\ called # "none"
   /\ Reference # << >>
   /\ \A a, b \in 1..Len(EvenQuantiles) :
        a < b => ~BpEq(EvenQuantiles[a], EvenQuantiles[b])) =>
    \A o \in IF called = "bivariate"
             THEN AssignPortfolioFF(data, sorting_variable,
                                    EvenTenths(n_portfolios))
             ELSE AssignPortfolio(data, {"NYSE"}, sorting_variable,
                                  n_portfolios) :
      /\ o.raised = raised
      /\ o.assigned_portfolios = assigned_portfolios

\* ------- bivariate-sorts.py lines 91-111 and 139-152: C27
\* the rows of the reference universe, and the highest label of the call
IsReference(i) == data[i].exchange = "NYSE"
HighestLabel == Len(breakpoints) - 1

C28_FactorsDefined ==
  /\ pc = "failed" =>
       \E d \in DOMAIN sorting_variables :
         \A i \in 1..Len(sorting_variables[d]) :
           sorting_variables[d][i].exchange # "NYSE"
  /\ pc = "factors" =>
       \A d \in {r.date : r \in portfolios_monthly} :
         /\ d \in DOMAIN factors_replicated
         /\ factors_replicated[d].smb_replicated.kind = "fin"
         /\ factors_replicated[d].hml_replicated.kind = "fin"

\* ------- bivariate-sorts.py lines 130-136, ff-factors.py lines 311-318: C29
\* the returns of the rows that carry the labels of a portfolio
ReturnsOf(t) == {First[i].ret_excess : i \in Carriers(t)}

Candidates ==
  Joined(SizeOf(crsp_monthly),
         BookToMarketOf(compustat, MarketEquityOf(crsp_monthly)))

\* no two rows of a date of the table are rows of one permno
OnePerPermno(table) ==
  \A d \in DOMAIN table :
    /\ \A i \in 1..Len(table[d]) : table[d][i].sorting_date = d
    /\ \A i, k \in 1..Len(table[d]) :
         table[d][i].permno = table[d][k].permno => i = k

\* C30: no (permno, sorting_date) pair occurs twice in sorting_variables or
\* in the assignment table portfolios, also when the merge of CRSP and
\* Compustat gave several candidate rows for a pair; every permno with a
\* candidate row on a date has a row in sorting_variables.
C30_OneRowPerSecurity ==
  /\ OnePerPermno(sorting_variables)
  /\ OnePerPermno(portfolios)
  /\ pc \in {"loaded", "portfolios"} =>
       \A c \in Candidates :
         \E i \in 1..Len(sorting_variables[c.sorting_date]) :
           sorting_variables[c.sorting_date][i].permno = c.permno
  /\ pc = "portfolios" =>
       \A d \in DOMAIN sorting_variables :
         /\ d \in DOMAIN portfolios
         /\ Len(portfolios[d]) = Len(sorting_variables[d])

\* The merge gave two candidate rows with different bm for a permno and a
\* date, and the permno has a label of each sort on that date.
C30_Witness ==
  /\ pc = "portfolios"
  /\ \E c, e \in Candidates :
       /\ c.permno = e.permno /\ c.sorting_date = e.sorting_date
       /\ c.bm # e.bm
       /\ \E i \in 1..Len(portfolios[c.sorting_date]) :
            /\ portfolios[c.sorting_date][i].permno = c.permno
            /\ portfolios[c.sorting_date][i].portfolio_size # NA
            /\ portfolios[c.sorting_date][i].portfolio_bm # NA

=============================================================================
